---- MODULE Spec2Model ----
(***************************************************************************)
(* A model of chainless' TaskFlow engine:                                  *)
(*   src/src/chainless/taskflow/_taskflow.py       (TaskFlow)              *)
(*   src/src/chainless/taskflow/_task_executor.py  (TaskExecutor)          *)
(*   src/src/chainless/taskflow/_task_context.py   (TaskContext)           *)
(*                                                                         *)
(* Python values are encoded uniformly so that TLC can compare them:       *)
(*   - a string that the code inspects character by character (reference  *)
(*     templates, paths) is a sequence of one-character strings;           *)
(*   - a step_outputs entry is a record [kind, val];                       *)
(*   - Python's None in an integer field is the sentinel NoneInt.          *)
(***************************************************************************)
EXTENDS Integers, Sequences, FiniteSets, TLC

----------------------------------------------------------------------------
(* Bounds of the exploration *)

\* largest retry budget (flow-level retry_on_fail or step override) explored
MaxRetry == 1
\* largest number of depends_on edges declared in one flow
MaxEdges == 2
\* largest number of run() calls made on one flow instance
MaxRuns == 2
\* largest number of walk slots (steps of the execution order, summed over
\* the runs of one instance) explored: a flow of n steps is run k times only
\* if n * k <= MaxWork
MaxWork == 4

----------------------------------------------------------------------------
(* Names *)

\* the step names a flow declares, in declaration order (a flow declares a
\* prefix of this list)
DeclOrder == <<"A", "B", "C">>

StepNameSet == {DeclOrder[i] : i \in 1..Len(DeclOrder)}

\* a registered agent that is not the default agent of any step
Echo == "echo"

\* the initial inputs callers pass to run(); the k-th run passes Inputs[k]
InputOfRun(k) == <<"in", ToString(k)>>

\* Python's None where the field otherwise holds an int
NoneInt == -1

\* no value / Python None as a resolved value
NoneVal == <<>>

----------------------------------------------------------------------------
(* Small helpers *)

Range(f) == {f[i] : i \in DOMAIN f}

\* position of name n in sequence q (0 when absent)
IndexOf(q, n) == IF \E i \in DOMAIN q : q[i] = n
                 THEN CHOOSE i \in DOMAIN q : q[i] = n /\ \A j \in 1..(i-1) : q[j] # n
                 ELSE 0

\* the sequence q without its first occurrence of element g (list.remove)
RemoveFirst(q, g) ==
    LET i == IndexOf(q, g)
    IN IF i = 0 THEN q
       ELSE [j \in 1..(Len(q) - 1) |-> IF j < i THEN q[j] ELSE q[j + 1]]

----------------------------------------------------------------------------
(* The declared flow *)

VARIABLES
    steps,            \* ctx.steps: the declared TaskStep records, in order
    agents,           \* ctx.agents: name -> registered runnable
    parallel_groups,  \* TaskFlow._parallel_groups: list of groups (sets of names)
    retry_on_fail,    \* ctx.retry_on_fail: flow-level retry budget
    initial_input,    \* ctx.initial_input
    step_outputs,     \* ctx.step_outputs: step name -> entry
    order_cache,      \* TaskExecutor._get_execution_order (cached_property)
    runs,             \* number of run() calls made so far on the instance
    pc,               \* where the current run() call is
    order,            \* _run_async: execution_order
    idx,              \* _run_async: position of the for loop in execution_order
    executed_steps,   \* _run_async: executed_steps
    st,               \* run_step_async frames: step name -> local variables
    grp,              \* _run_parallel_group frame: results, errors, members
    trace,            \* observation: events of the current run, in order
    error,            \* the exception the current run() call raised
    result,           \* the FlowOutput.output the current run() call returned
    aliases,          \* ctx._aliases: alias name -> <<from_step, key>>
    resolved,         \* observation: the last values _resolve_value returned
    caller,           \* the thread that calls run(), and its event loop if any
    hooks,            \* what the callbacks in the hook slots do when called
    declared,         \* observation: the groups parallel() was called with
    on_step,          \* ctx.on_step_start / on_step_complete / on_step_error
    memory,           \* a Memory object (memory.py) and the last call made on it
    executions        \* ToolExecutionTracker._executions (class attribute)

vars == <<steps, agents, parallel_groups, retry_on_fail, initial_input,
          step_outputs, order_cache, runs, pc, order, idx, executed_steps,
          st, grp, trace, error, result, aliases, resolved, caller, hooks,
          declared, on_step, memory, executions>>

flowVars == <<steps, agents, retry_on_fail, aliases, resolved, caller, hooks,
              declared, on_step, memory, executions>>

\* no Memory object is in use
NoMemory == [max_messages |-> 0, messages |-> <<>>, added |-> <<>>,
             op |-> "none", got |-> <<>>, exc |-> "none"]

\* a name that is no declared step: a depends_on entry may name it
Ghost == "ghost"

\* the reference of the template "{{input}}"
InputRef == "input"

\* a prompt template "{{topic}}" is written as the key it names
TopicKey == "topic"

\* TaskStep (schemas/taskflow_schema.py): the fields the engine reads.
\*   condition : "None" or "fn" (a callable; its result is drawn when called)
\*   timeout   : 0 for None (falsy: no timeout installed), else seconds
\*   input_map : the map {"input": "{{<ref>}}"}, written as its reference
\*               <ref>: InputRef or the name of a step
\*   prompt_template : "None", or the key of the one placeholder of the
\*               template
MkStep(name, agent, deps, cond, retry, timeout) ==
    [step_name |-> name, agent_name |-> agent, depends_on |-> deps,
     condition |-> cond, retry_on_fail |-> retry, timeout |-> timeout,
     input_map |-> InputRef, prompt_template |-> "None"]

Prefix(n) == {DeclOrder[i] : i \in 1..n}

\* every set of at most MaxEdges (dep, step) pairs over the first n names
EdgeSets(n) ==
    {E \in SUBSET ((Prefix(n) \cup {Ghost}) \X Prefix(n)) : Cardinality(E) <= MaxEdges}

DepsOf(E, s) == {e[1] : e \in {x \in E : x[2] = s}}

\* the attribute profiles a step can be declared with
Profiles == [condition : {"None", "fn"},
             retry_on_fail : {NoneInt} \cup (0..MaxRetry),
             timeout : {0, 1}]

\* the profile of the steps of the larger flows: a condition, the retry
\* budget left to the flow, no timeout
CondProfile == [condition |-> "fn", retry_on_fail |-> NoneInt, timeout |-> 0]

\* the agent of the i-th of n steps under agent choice c:
\*   "own"    step(agent_name) with step_name defaulted to agent_name
\*   "shared" the last step reuses the first step's agent under its own step_name
\*   "echo"   the last step uses the agent Echo under its own step_name
AgentChoice(c, i, n) ==
    IF i = n /\ c = "echo" THEN Echo
    ELSE IF i = n /\ n > 1 /\ c = "shared" THEN DeclOrder[1]
    ELSE DeclOrder[i]

\* the lists of parallel groups declared over the first n names: none, or
\* one group of two steps
GroupLists(n) ==
    {<<>>} \cup {<<g>> : g \in {x \in SUBSET Prefix(n) : Cardinality(x) = 2}}

\* what the callbacks in the hook slots do: every one returns normally,
\* every one raises an Exception, or every one never returns
HookBehaviours == {"return", "raise", "hang"}

\* what the first step of a flow is declared with:
\*   "input"      input_map {"input": "{{input}}"}, no prompt template
\*   "bad_ref"    input_map {"input": "{{ghost}}"}: a reference to a step
\*                that never has an output
\*   "bad_prompt" a prompt template "{{topic}}" while the input map has no
\*                key topic
InputKinds == {"input", "bad_ref", "bad_prompt"}

\* The flows explored.  A flow of three steps varies its dependency graph
\* and groups; a flow of two steps also varies the flow-level retry budget,
\* the agent of its last step, its hooks and the input of its first step; a
\* flow of one step varies everything a step can be declared with.
FlowShapes ==
    [n : {3}, prof : {CondProfile}, agent : {"own"}, retry : {0}, hooks : {"return"},
     inputs : {"input"}]
    \cup [n : {2}, prof : {CondProfile}, agent : {"own", "shared", "echo"},
          retry : 0..MaxRetry, hooks : {"return"}, inputs : {"input"}]
    \cup [n : {2}, prof : {CondProfile}, agent : {"own"},
          retry : 0..MaxRetry, hooks : HookBehaviours \ {"return"}, inputs : {"input"}]
    \cup [n : {2}, prof : {CondProfile}, agent : {"own"},
          retry : 0..MaxRetry, hooks : {"return"}, inputs : InputKinds \ {"input"}]
    \cup [n : {1}, prof : Profiles, agent : {"own", "echo"}, retry : 0..MaxRetry,
          hooks : HookBehaviours, inputs : InputKinds]

\* the first step declared with the given input kind
WithInput(step, i, kind) ==
    IF i # 1 THEN step
    ELSE [step EXCEPT !.input_map = IF kind = "bad_ref" THEN Ghost ELSE InputRef,
                      !.prompt_template = IF kind = "bad_prompt" THEN TopicKey
                                          ELSE "None"]

NoError == [kind |-> "none", names |-> {}, msg |-> <<>>]

\* A value passed as a callback: None, a function with the given parameter
\* names, or an object that is not callable (truthy or falsy).
NoCallback == [kind |-> "None", params |-> <<>>, truthy |-> FALSE]
Fn(params) == [kind |-> "function", params |-> params, truthy |-> TRUE]
NotCallable(truthy) == [kind |-> "object", params |-> <<>>, truthy |-> truthy]

\* the flow-level hook slots of the context
FlowSlots == {"on_step_start", "on_step_complete", "on_step_error"}

\* the step-level hook slots of a TaskStep
StepSlots == {"on_start", "on_complete", "on_error"}

\* the parameter names of a hook by its role (lines 73, 77, 80)
ExpectedArgs(slot) ==
    CASE slot \in {"on_step_start", "on_start"} -> <<"step_name", "user_input">>
      [] slot \in {"on_step_complete", "on_complete"} -> <<"step_name", "output">>
      [] slot \in {"on_step_error", "on_error"} -> <<"step_name", "error">>

\* a context without flow-level hooks (TaskContext.__init__)
NoHooks == [slot \in FlowSlots |-> NoCallback]

\* a step_outputs entry; Absent stands for "key not in the dict"
Absent == [kind |-> "absent", val |-> <<>>]
Entry(kind, val) == [kind |-> kind, val |-> val]

\* run_step_async's local variables for one step
IdleFrame == [phase |-> "idle", retries |-> 0, last_exception |-> <<>>,
              attempts |-> 0, input |-> <<>>]

\* nothing was resolved yet: route -> what _resolve_value gave
Unresolved == << >>

IdleGroup == [members |-> {}, tostart |-> {}, results |-> {}, errors |-> <<>>]

\* The calling thread: loop tells whether asyncio.get_running_loop() finds a
\* loop running in it, ready is that loop's queue of callbacks, state is
\* "blocked" while the thread waits in future.result(), future is the state
\* of the concurrent future run_coroutine_threadsafe returned.
OutsideLoop == [loop |-> FALSE, ready |-> <<>>, state |-> "idle", future |-> "none"]

InsideLoop(ready) == [loop |-> TRUE, ready |-> ready, state |-> "idle", future |-> "none"]

\* the flow after construction and declarations
InitFlow ==
    /\ \E shape \in FlowShapes : \E E \in EdgeSets(shape.n), G \in GroupLists(shape.n) :
          /\ steps = [i \in 1..shape.n |->
                        WithInput(
                          MkStep(DeclOrder[i], AgentChoice(shape.agent, i, shape.n),
                                 DepsOf(E, DeclOrder[i]), shape.prof.condition,
                                 shape.prof.retry_on_fail, shape.prof.timeout),
                          i, shape.inputs)]
          /\ parallel_groups = G
          /\ declared = G
          /\ retry_on_fail = shape.retry
          /\ hooks = shape.hooks
    /\ on_step = [slot \in FlowSlots |-> Fn(ExpectedArgs(slot))]
    /\ memory = NoMemory
    /\ executions = <<>>
    /\ agents = [a \in StepNameSet \cup {Echo} |-> a]
    /\ initial_input = <<>>
    /\ step_outputs = [s \in StepNameSet |-> Absent]
    /\ order_cache = [set |-> FALSE, val |-> <<>>]
    /\ runs = 0
    /\ pc = "idle"
    /\ order = <<>>
    /\ idx = 0
    /\ executed_steps = {}
    /\ st = [s \in StepNameSet |-> IdleFrame]
    /\ grp = IdleGroup
    /\ trace = <<>>
    /\ error = NoError
    /\ result = NoneVal
    /\ aliases = << >>
    /\ resolved = Unresolved

\* a flow declared by a caller that runs no event loop
Init ==
    /\ InitFlow
    /\ caller = OutsideLoop

----------------------------------------------------------------------------
(* TaskExecutor._get_execution_order *)

DeclaredNames(ss) == {ss[i].step_name : i \in DOMAIN ss}

\* ctx._get_step_by_name
GetStepByName(ss, name) == ss[CHOOSE i \in DOMAIN ss : ss[i].step_name = name]

\* the edges G.add_edge(dep, step.step_name) adds
GraphEdges(ss) ==
    UNION {{<<d, ss[i].step_name>> : d \in ss[i].depends_on} : i \in DOMAIN ss}

Perms(S) == {p \in [1..Cardinality(S) -> S] : \A i, j \in DOMAIN p : i # j => p[i] # p[j]}

\* a sort that ignores the edges
TopoOrders_IgnoringEdges(ss) == Perms(DeclaredNames(ss))

\* nx.topological_sort(G): the library returns one topological order of G and
\* raises NetworkXUnfeasible iff G has a cycle; every order that respects the
\* edges is a possible return value.
TopoOrders(ss) ==
    {p \in Perms(DeclaredNames(ss)) :
        \A e \in GraphEdges(ss) : IndexOf(p, e[1]) < IndexOf(p, e[2])}

\* the fast path walked backwards
DeclarationOrder_Reversed(ss) == [i \in DOMAIN ss |-> ss[Len(ss) + 1 - i].step_name]

\* line 45: [step.step_name for step in self.ctx.steps]
DeclarationOrder(ss) == [i \in DOMAIN ss |-> ss[i].step_name]

\* a graph construction that accepts every dependency name
UnknownDeps_None(ss, i) == {}

\* line 54: the dependencies of the i-th step with `dep not in all_agents`
UnknownDeps(ss, i) == ss[i].depends_on \ DeclaredNames(ss)

\* first step, in declaration order, that lists an undeclared dependency
FirstUnknownDep(ss) ==
    LET bad == {i \in DOMAIN ss : UnknownDeps(ss, i) # {}}
        i == CHOOSE k \in bad : \A j \in bad : k <= j
    IN [step |-> ss[i].step_name,
        dep |-> CHOOSE d \in UnknownDeps(ss, i) : TRUE]

\* The outcomes of evaluating the property body: a returned order, or the
\* exception that leaves it.
\*  - no step has depends_on: declaration order (lines 44-45)
\*  - a dependency that is no declared step: RuntimeError naming the step and
\*    the dependency (lines 53-57)
\*  - a cycle: nx.find_cycle(G, orientation="original") yields edges as
\*    triples (u, v, "forward"); the generator in the join at line 64 unpacks
\*    each into two names, which raises ValueError("too many values to
\*    unpack") before the RuntimeError of line 65 is built: the exception
\*    that leaves names no step
ExecutionOrderOutcomes(ss) ==
    IF \A i \in DOMAIN ss : ss[i].depends_on = {}
    THEN {[ok |-> TRUE, order |-> DeclarationOrder(ss), error |-> NoError]}
    ELSE IF \E i \in DOMAIN ss : UnknownDeps(ss, i) # {}
    THEN {[ok |-> FALSE, order |-> <<>>,
           error |-> [kind |-> "UnknownDependency",
                      names |-> {FirstUnknownDep(ss).step, FirstUnknownDep(ss).dep},
                      msg |-> <<>>]]}
    ELSE IF TopoOrders(ss) = {}
    THEN {[ok |-> FALSE, order |-> <<>>,
           error |-> [kind |-> "ValueError", names |-> {},
                      msg |-> <<"too many values to unpack (expected 2)">>]]}
    ELSE {[ok |-> TRUE, order |-> p, error |-> NoError] : p \in TopoOrders(ss)}

\* a plain property: the body is evaluated at every access
CachedOrderOutcomes_Recomputed(cache, ss) == ExecutionOrderOutcomes(ss)

\* @cached_property: the first access whose body returns stores the value
\* on the executor; later accesses return the stored value without
\* evaluating the body
CachedOrderOutcomes(cache, ss) ==
    IF cache.set
    THEN {[ok |-> TRUE, order |-> cache.val, error |-> NoError]}
    ELSE ExecutionOrderOutcomes(ss)

----------------------------------------------------------------------------
(* TaskFlow.run / run_async: entry *)

\* run(user_input) up to the first iteration of _run_async's loop: sets
\* ctx.initial_input, reads the cached execution order (computing it on first
\* use; an exception leaves the cache unset) and creates executed_steps.
\* Nothing else of the context is touched: step_outputs and _parallel_groups
\* keep what earlier runs left in them.  The caller runs no event loop:
\* get_running_loop() raises RuntimeError and line 248 runs _run_async.
RunBegin ==
    /\ ~caller.loop
    /\ pc \in {"idle", "returned", "raised"}
    /\ runs < MaxRuns
    /\ Len(steps) * (runs + 1) <= MaxWork
    /\ runs' = runs + 1
    /\ initial_input' = InputOfRun(runs + 1)
    /\ executed_steps' = {}
    /\ st' = [s \in StepNameSet |-> IdleFrame]
    /\ grp' = IdleGroup
    /\ trace' = <<>>
    /\ result' = NoneVal
    /\ \E o \in CachedOrderOutcomes(order_cache, steps) :
          /\ order' = o.order
          /\ idx' = 1
          /\ pc' = IF o.ok THEN "walk" ELSE "raised"
          /\ error' = o.error
          /\ order_cache' = IF o.ok THEN [set |-> TRUE, val |-> o.order]
                            ELSE order_cache
    /\ UNCHANGED <<flowVars, parallel_groups, step_outputs>>

----------------------------------------------------------------------------
(* Observation: the events of a run *)

\* Every hook slot (step-level on_start/on_complete/on_error, flow-level
\* on_step_start/on_step_complete/on_step_error) holds a callback; a call
\* of it is recorded as an event.
\* An event is [ev, step, tag, arg, via]; via tells whether run_step_async
\* was called by the sequential walk ("walk") or by a group task ("group").
Hook(tag, s, arg) ==
    [ev |-> "hook", step |-> s, tag |-> tag, arg |-> arg, via |-> "walk"]

\* an attempt: the runnable of step s is called with the resolved input
Invoke(s, agent, arg) ==
    [ev |-> "invoke", step |-> s, tag |-> agent, arg |-> arg, via |-> "walk"]

\* the runnable call of step s ended with the given outcome
Return(s, outcome) ==
    [ev |-> "return", step |-> s, tag |-> outcome, arg |-> <<>>, via |-> "walk"]

\* step s reached an outcome: "succeeded", "failed" or "skipped"
Settle(s, how, arg) ==
    [ev |-> "settle", step |-> s, tag |-> how, arg |-> arg, via |-> "walk"]

\* the exception a raising callback raises
HookError == [kind |-> "HookError", names |-> {}, msg |-> <<"hook raised">>]

\* stands for "the await of the callback has not completed": nothing leaves
\* the wrapper
HookPending == [kind |-> "pending", names |-> {}, msg |-> <<"hook never returns">>]

\* a wrapper that lets the callback's exception through
SafeCallCallback_Propagates(h, behaviour) ==
    [events |-> <<h>>,
     exc |-> CASE behaviour = "raise" -> HookError
               [] behaviour = "hang" -> HookPending
               [] OTHER -> NoError]

\* TaskExecutor._safe_call_callback (lines 27-38): the callback is called;
\* an Exception it raises is logged and not re-raised.  call_callback
\* awaits (or calls) the callback with no timeout (callback_utils.py, lines
\* 33-36): a callback that never returns keeps the wrapper waiting.  The
\* result is the event of the call and the exception that leaves the
\* wrapper, HookPending when the wrapper is never left.
SafeCallCallback(h, behaviour) ==
    [events |-> <<h>>, exc |-> IF behaviour = "hang" THEN HookPending ELSE NoError]

\* the phase of a frame after a hook call: waiting in the call, or past it
AfterHook(exc, past, raised) ==
    CASE exc = NoError -> past
      [] exc = HookPending -> "in_hook"
      [] OTHER -> raised

\* two awaited _safe_call_callback calls in a row: an exception that leaves
\* the first one is raised at that line and the second call is not made
CallHooks(h1, h2, behaviour) ==
    LET r1 == SafeCallCallback(h1, behaviour)
        r2 == SafeCallCallback(h2, behaviour)
    IN IF r1.exc # NoError THEN r1
       ELSE [events |-> r1.events \o r2.events, exc |-> r2.exc]

Via(events, v) == [i \in DOMAIN events |-> [events[i] EXCEPT !.via = v]]

\* dict.get(key, {}) on step_outputs
GetEntry(outs, key) == IF key \in DOMAIN outs THEN outs[key] ELSE Absent

----------------------------------------------------------------------------
(* TaskExecutor.run_step_async *)

\* a budget computed as `retry_override or self.ctx.retry_on_fail`
RetriesOf_ZeroIsUnset(step) ==
    IF step.retry_on_fail \notin {NoneInt, 0} THEN step.retry_on_fail ELSE retry_on_fail

\* the budget of line 107-109
RetriesOf(step) ==
    IF step.retry_on_fail # NoneInt THEN step.retry_on_fail ELSE retry_on_fail

\* the value a runnable returns: it records which agent produced it from
\* which input
OutputOf(agent, input) == <<agent>> \o input

\* the message of the exception the runnable raises on its k-th attempt
ExcMsg(k) == <<"boom", ToString(k)>>

\* line 188: the message names the agent, not the step
TimeoutMsg(agent) == <<"Step", agent, "timed out">>

\* reading the unbound local `output` at line 187 after move_on_after
\* cancelled the call: UnboundLocalError
UnboundMsg == <<"cannot access local variable output">>

ResolutionError(names, msg) == [kind |-> "ChainlessError", names |-> names, msg |-> msg]

\* a resolver that gives None for a step without output
ResolveInput_Lenient(step, outs) ==
    IF step.input_map = InputRef \/ GetEntry(outs, step.input_map) = Absent
    THEN [val |-> initial_input, exc |-> NoError]
    ELSE [val |-> GetEntry(outs, step.input_map).val, exc |-> NoError]

\* line 82, ctx.resolve_input({"input": "{{<ref>}}"}): "{{input}}" gives the
\* initial input; every other reference names a step and gives its recorded
\* output, or raises ChainlessError when the step has none
\* (_resolve_references, lines 194-198)
ResolveInput(step, outs) ==
    IF step.input_map = InputRef
    THEN [val |-> initial_input, exc |-> NoError]
    ELSE IF GetEntry(outs, step.input_map) = Absent
    THEN [val |-> NoneVal,
          exc |-> ResolutionError({step.input_map}, <<"no output", step.input_map>>)]
    ELSE [val |-> GetEntry(outs, step.input_map).val, exc |-> NoError]

\* lines 83-85, ctx.resolve_prompt(prompt_template, resolved_input): the
\* input map has the single key "input", a reserved key, so extra_inputs is
\* empty and substitute() raises KeyError for the placeholder of a template
\* (lines 182-186)
ResolvePrompt(step) ==
    IF step.prompt_template = "None" THEN NoError
    ELSE ResolutionError({step.prompt_template},
                         <<"Prompt template missing key", step.prompt_template>>)

\* lines 82-96: the exception that leaves run_step_async before its first
\* hook, NoError if none does, and the input the runnable gets
Resolution(s) ==
    LET step == GetStepByName(steps, s)
        r == ResolveInput(step, step_outputs)
    IN IF r.exc # NoError THEN r
       ELSE [val |-> r.val, exc |-> ResolvePrompt(step)]

\* lines 82-135: resolve the input map and the prompt, fire the on_start
\* hooks (step-level, then flow-level), look the agent up, compute the retry
\* budget, and enter the loop: the first attempt is in flight.
StartHooks(s) ==
    IF Resolution(s).exc # NoError
    THEN [events |-> << Settle(s, "failed", Resolution(s).exc.msg) >>,
          exc |-> Resolution(s).exc]
    ELSE CallHooks(Hook("step.on_start", s, Resolution(s).val),
                   Hook("flow.on_start", s, Resolution(s).val), hooks)

StartEvents(s) ==
    LET step == GetStepByName(steps, s)
    IN StartHooks(s).events \o
       (IF StartHooks(s).exc = NoError
        THEN << Invoke(s, step.agent_name, Resolution(s).val) >> ELSE << >>)

StartFrame(s) ==
    [phase |-> AfterHook(StartHooks(s).exc, "invoking", "failed"),
     retries |-> RetriesOf(GetStepByName(steps, s)),
     last_exception |-> <<>>, attempts |-> 1, input |-> Resolution(s).val]

\* The outcomes a runnable call can have:
\*   "ok"      returns a value that is not None
\*   "none"    returns None
\*   "raise"   raises an Exception
\*   "timeout" the step's move_on_after scope expires and cancels the call
\*             (only when step.timeout is set)
Outcomes(step) ==
    {"ok", "none", "raise"} \cup (IF step.timeout # 0 THEN {"timeout"} ELSE {})

\* a step whose final failure is passed over: run_step_async returns
FailPermanently_Continues(s, f, e) ==
    [next |-> "success",
     frame |-> [f EXCEPT !.phase = "failed", !.last_exception = e],
     entry |-> Absent,
     events |-> << Settle(s, "failed", e) >>,
     exc |-> NoError]

\* lines 202-203: no budget is left; RuntimeError("<step> failed
\* permanently: <e>") is raised from inside the except block and leaves
\* run_step_async; f is the frame, e the message of the exception caught
FailPermanently(s, f, e) ==
    [next |-> "raise",
     frame |-> [f EXCEPT !.phase = "failed", !.last_exception = e],
     entry |-> Absent,
     events |-> << Settle(s, "failed", e) >>,
     exc |-> [kind |-> "RuntimeError", names |-> {s},
              msg |-> <<s, "failed permanently">> \o e]]

\* a retry that leaves the budget as it was
BudgetAfterRetry_Refilled(retries) == retries

\* line 204: retries -= 1
BudgetAfterRetry(retries) == retries - 1

\* What one return of the runnable makes of the frame (lines 136-229):
\* a record [next, frame, entry, events, exc] where next is "retry" (another
\* attempt is in flight), "success" (the call returned) or "raise" (exc
\* leaves run_step_async); entry is the step_outputs entry written, Absent if
\* none is written.
AfterAttemptWith(s, outcome, behaviour) ==
    LET step == GetStepByName(steps, s)
        f == st[s]
        e == IF outcome = "timeout" THEN UnboundMsg ELSE ExcMsg(f.attempts)
    IN
    IF outcome \in {"raise", "timeout"}
    THEN \* except Exception (198-207)
         IF f.retries <= 0
         THEN FailPermanently(s, f, e)
         ELSE [next |-> "retry",
               frame |-> [f EXCEPT !.retries = BudgetAfterRetry(f.retries),
                                   !.last_exception = e,
                                   !.attempts = f.attempts + 1],
               entry |-> Absent,
               events |-> << Invoke(s, step.agent_name, f.input) >>,
               exc |-> NoError]
    ELSE
    LET \* "none": line 187 raises TimeoutError, caught at 194: break
        last == IF outcome = "none" THEN TimeoutMsg(step.agent_name) ELSE f.last_exception
        out == OutputOf(step.agent_name, f.input)
        onerr == CallHooks(Hook("step.on_error", s, last),
                           Hook("flow.on_error", s, last), behaviour)
        oncomplete == CallHooks(Hook("flow.on_complete", s, out),
                                Hook("step.on_complete", s, out), behaviour)
    IN
    IF last # <<>>
    THEN \* lines 210-219: `if last_exception:` holds for every exception
         \* assigned at 195 or 199, also after a later attempt succeeded
         [next |-> IF onerr.exc = HookPending THEN "hang" ELSE "raise",
          frame |-> [f EXCEPT !.phase = AfterHook(onerr.exc, "failed", "failed"),
                              !.last_exception = last],
          entry |-> Entry("error", last),
          events |-> << Settle(s, "failed", last) >> \o onerr.events,
          exc |-> IF onerr.exc # NoError THEN onerr.exc
                  ELSE IF outcome = "none"
                  THEN [kind |-> "TimeoutError", names |-> {step.agent_name}, msg |-> last]
                  ELSE [kind |-> "Exception", names |-> {}, msg |-> last]]
    ELSE \* lines 221-229
         [next |-> AfterHook(oncomplete.exc, "success", "raise"),
          frame |-> [f EXCEPT !.phase = AfterHook(oncomplete.exc, "succeeded",
                                                  "failed")],
          entry |-> Entry("output", out),
          events |-> << Settle(s, "succeeded", out) >> \o oncomplete.events,
          exc |-> oncomplete.exc]

\* with the callbacks the flow was declared with
AfterAttempt(s, outcome) == AfterAttemptWith(s, outcome, hooks)

----------------------------------------------------------------------------
(* TaskFlow._run_async and TaskFlow._run_parallel_group *)

\* what calling step.condition(step_outputs) can give (the callable is the
\* caller's: it returns True, False or a value that is no bool, or it raises)
CondResults(step) ==
    IF step.condition = "None" THEN {"None"}
    ELSE {"True", "False", "NonBool", "Raise"}

\* the exception a condition raises
ConditionError == [kind |-> "ConditionError", names |-> {}, msg |-> <<"condition raised">>]

\* line 343-345: the first declared group that lists the step
GroupOf(s) ==
    LET hits == {i \in DOMAIN parallel_groups : s \in parallel_groups[i]}
    IN IF hits = {} THEN {}
       ELSE parallel_groups[CHOOSE i \in hits : \A j \in hits : i <= j]

\* run() lines 250-254: the entry is looked up under the AGENT name of the
\* last declared step; a missing key gives {} and {}.get("output") is None;
\* an entry without "output" key ({"error": ...}) gives None as well
FinalOutput(outs) ==
    LET last_agent == steps[Len(steps)].agent_name
        last_step == GetEntry(outs, last_agent)
    IN IF last_step.kind = "output" THEN last_step.val ELSE NoneVal

\* One iteration of the for loop of _run_async, up to the point where it
\* awaits a runnable (or a group), and the return after the last iteration
\* together with the tail of run() that builds the FlowOutput.
WalkNext ==
    /\ pc = "walk"
    /\ IF idx > Len(order)
       THEN /\ pc' = "returned"
            /\ result' = FinalOutput(step_outputs)
            /\ UNCHANGED <<idx, step_outputs, trace, st, grp, error>>
       ELSE
         LET s == order[idx]
             step == GetStepByName(steps, s)
         IN
         IF s \in executed_steps
         THEN /\ idx' = idx + 1
              /\ UNCHANGED <<pc, step_outputs, trace, st, grp, error, result>>
         ELSE IF step.agent_name \notin DOMAIN agents
         THEN /\ pc' = "raised"
              /\ error' = [kind |-> "AgentNotRegistered", names |-> {s, step.agent_name},
                           msg |-> <<>>]
              /\ UNCHANGED <<idx, step_outputs, trace, st, grp, result>>
         ELSE \E c \in CondResults(step) :
           IF c = "Raise"
           THEN \* line 325: the call is not guarded; the exception leaves
                \* _run_async
                /\ pc' = "raised"
                /\ error' = ConditionError
                /\ trace' = Append(trace, [ev |-> "condition", step |-> s, tag |-> c,
                                           arg |-> <<>>, via |-> "walk"])
                /\ UNCHANGED <<idx, step_outputs, st, grp, result>>
           ELSE IF c \in {"False", "NonBool"}
           THEN \* lines 327-341: skipped
                /\ step_outputs' = [step_outputs EXCEPT ![s] = Entry("skipped", NoneVal)]
                /\ trace' = Append(trace, Settle(s, "skipped", NoneVal))
                /\ idx' = idx + 1
                /\ UNCHANGED <<pc, st, grp, error, result>>
           ELSE IF GroupOf(s) # {}
           THEN \* lines 347-349: _run_parallel_group(parallel_group, executed_steps)
                /\ pc' = "group"
                /\ grp' = [members |-> GroupOf(s) \ executed_steps,
                           tostart |-> GroupOf(s) \ executed_steps,
                           results |-> {}, errors |-> <<>>]
                /\ UNCHANGED <<idx, step_outputs, trace, st, error, result>>
           ELSE \* lines 354-361: run_step_async
                /\ pc' = IF StartHooks(s).exc \in {NoError, HookPending}
                         THEN "step" ELSE "raised"
                /\ error' = IF StartHooks(s).exc \in {NoError, HookPending}
                            THEN error ELSE StartHooks(s).exc
                /\ st' = [st EXCEPT ![s] = StartFrame(s)]
                /\ trace' = trace \o StartEvents(s)
                /\ UNCHANGED <<idx, step_outputs, grp, result>>
    /\ UNCHANGED <<flowVars, parallel_groups, initial_input, order_cache, runs,
                   order, executed_steps>>

\* A task of the group starts (tg.start_soon(run_step), lines 380-398): it
\* runs run_step_async up to its first attempt.  The order in which the
\* started tasks get to run is the scheduler's.
MemberStart(s) ==
    /\ pc = "group"
    /\ s \in grp.tostart
    /\ LET raised == StartHooks(s).exc \notin {NoError, HookPending}
           \* lines 391-396: the wrapper records the error, then calls the
           \* flow-level on_step_error hook
           wrapper == SafeCallCallback(Hook("flow.on_error", s, StartHooks(s).exc.msg),
                                       hooks)
       IN /\ grp' = [grp EXCEPT !.tostart = grp.tostart \ {s},
                                !.errors = IF raised
                                           THEN Append(@, [n |-> s, e |-> StartHooks(s).exc])
                                           ELSE @]
          /\ st' = [st EXCEPT ![s] =
                      IF raised
                      THEN [StartFrame(s) EXCEPT
                              !.phase = AfterHook(wrapper.exc, "failed", "failed")]
                      ELSE StartFrame(s)]
          /\ trace' = trace \o
                       Via(StartEvents(s) \o
                           (IF raised THEN wrapper.events ELSE << >>), "group")
    /\ UNCHANGED <<flowVars, parallel_groups, initial_input, step_outputs,
                   order_cache, runs, pc, order, idx, executed_steps, error, result>>

\* The runnable call of step s returns, raises or is cancelled by the step's
\* timeout, and run_step_async continues to its next await: the next attempt,
\* or the end of the step.  In the sequential walk a success adds the step to
\* executed_steps (line 362) and an exception leaves run(); in a group the
\* wrapper records the member in results (line 390) or in errors and calls
\* the flow-level on_step_error hook (lines 391-396).
AgentReturn(s, outcome) ==
    /\ pc \in {"step", "group"}
    /\ st[s].phase = "invoking"
    /\ outcome \in Outcomes(GetStepByName(steps, s))
    /\ LET a == AfterAttempt(s, outcome)
           emsg == a.exc.msg
           \* lines 391-396, in a group: the wrapper's call of the flow-level
           \* on_step_error hook
           wrapper == SafeCallCallback(Hook("flow.on_error", s, emsg), hooks)
       IN
       /\ st' = [st EXCEPT ![s] =
                   IF pc = "group" /\ a.next = "raise"
                   THEN [a.frame EXCEPT !.phase = AfterHook(wrapper.exc, "failed",
                                                           "failed")]
                   ELSE a.frame]
       /\ step_outputs' = IF a.entry = Absent THEN step_outputs
                          ELSE [step_outputs EXCEPT ![s] = a.entry]
       /\ IF pc = "step"
          THEN /\ trace' = trace \o << Return(s, outcome) >> \o a.events
               /\ pc' = CASE a.next \in {"retry", "hang"} -> "step"
                          [] a.next = "success" -> "walk"
                          [] a.next = "raise" -> "raised"
               /\ idx' = IF a.next = "success" THEN idx + 1 ELSE idx
               /\ executed_steps' = IF a.next = "success"
                                    THEN executed_steps \cup {s} ELSE executed_steps
               /\ error' = IF a.next = "raise" THEN a.exc ELSE error
               /\ UNCHANGED grp
          ELSE /\ trace' = trace \o Via(<< Return(s, outcome) >> \o a.events \o
                                       (IF a.next = "raise" THEN wrapper.events
                                        ELSE << >>), "group")
               /\ grp' = CASE a.next \in {"retry", "hang"} -> grp
                           [] a.next = "success" ->
                                [grp EXCEPT !.results = grp.results \cup {s}]
                           [] a.next = "raise" ->
                                [grp EXCEPT !.errors = Append(grp.errors, [n |-> s, e |-> a.exc])]
               /\ UNCHANGED <<pc, idx, executed_steps, error>>
    /\ UNCHANGED <<flowVars, parallel_groups, initial_input, order_cache, runs,
                   order, result>>

\* names of the members recorded in errors
ErrorMembers(g) == {g.errors[i].n : i \in DOMAIN g.errors}

\* line 401: "; ".join(f"{n}: {e}" for n, e in errors)
RECURSIVE ErrSummary(_)
ErrSummary(errs) ==
    IF errs = <<>> THEN <<>>
    ELSE <<errs[1].n>> \o errs[1].e.msg \o ErrSummary(Tail(errs))

\* a task group that is left as soon as one task has finished
TasksFinished_AnyMember(g) ==
    \E m \in g.members : st[m].phase \in {"succeeded", "failed"}

\* line 374: `async with anyio.create_task_group()` is left when every
\* started task has finished
TasksFinished(g) ==
    \A m \in g.members : st[m].phase \in {"succeeded", "failed"}

\* The task group is left (line 374: every task has finished), lines 400-405
\* and the return into _run_async, lines 350-351.
GroupJoin ==
    /\ pc = "group"
    /\ grp.tostart = {}
    /\ TasksFinished(grp)
    /\ IF grp.errors # <<>>
       THEN /\ pc' = "raised"
            /\ error' = [kind |-> "ParallelGroupFailed",
                         names |-> ErrorMembers(grp),
                         msg |-> ErrSummary(grp.errors)]
            /\ UNCHANGED <<idx, executed_steps, parallel_groups>>
       ELSE /\ pc' = "walk"
            /\ executed_steps' = executed_steps \cup grp.results
            /\ parallel_groups' = RemoveFirst(parallel_groups, GroupOf(order[idx]))
            /\ idx' = idx + 1
            /\ UNCHANGED error
    /\ UNCHANGED <<flowVars, initial_input, step_outputs, order_cache, runs, order,
                   st, grp, trace, result>>

Next ==
    \/ RunBegin
    \/ WalkNext
    \/ \E s \in StepNameSet : MemberStart(s)
    \/ \E s \in StepNameSet, o \in {"ok", "none", "raise", "timeout"} : AgentReturn(s, o)
    \/ GroupJoin

Spec == Init /\ [][Next]_vars

----------------------------------------------------------------------------
(* Reading the trace of the current run *)

Events(kind) == {i \in DOMAIN trace : trace[i].ev = kind}

EventsOf(kind, s) == {i \in Events(kind) : trace[i].step = s}

\* position of step s in the declaration list
DeclIndex(s) == CHOOSE i \in DOMAIN steps : steps[i].step_name = s

NoDependsOn == \A i \in DOMAIN steps : steps[i].depends_on = {}

\* the runnable calls of s that ended in a failure
FailedReturns(s) == {i \in EventsOf("return", s) : trace[i].tag \in {"raise", "timeout"}}

HooksOf(tag, s) == {i \in EventsOf("hook", s) : trace[i].tag = tag}

----------------------------------------------------------------------------
(* C1 *)

\* C1 (as stated): in a flow where no step declares depends_on, the runnables
\* are invoked in declaration order: an invocation never follows the
\* invocation of a step declared later.
C1_DeclarationOrder ==
    NoDependsOn =>
        \A i, j \in Events("invoke") :
            i < j => DeclIndex(trace[i].step) <= DeclIndex(trace[j].step)

\* C1 (amended): in a flow where no step declares depends_on, the runnables
\* of the steps that the walk executes itself (outside a parallel group) are
\* invoked in declaration order.
C1_WalkDeclarationOrder ==
    NoDependsOn =>
        \A i, j \in {k \in Events("invoke") : trace[k].via = "walk"} :
            i < j => DeclIndex(trace[i].step) <= DeclIndex(trace[j].step)

\* a run of a three-step flow without depends_on has invoked, from the walk,
\* the first and the last declared step, and returned
C1_Witness ==
    /\ NoDependsOn /\ Len(steps) = 3 /\ pc = "returned"
    /\ \E i, j \in Events("invoke") :
          /\ i < j /\ trace[i].via = "walk" /\ trace[j].via = "walk"
          /\ trace[i].step = DeclOrder[1] /\ trace[j].step = DeclOrder[3]

----------------------------------------------------------------------------
(* C2 *)

DependsOn(s) == GetStepByName(steps, s).depends_on

SettledBefore(d, i) == \E j \in EventsOf("settle", d) : j < i

\* C2 (as stated): no runnable is invoked before every step its step depends
\* on has settled, whatever groups are declared.
C2_AfterDependencies ==
    \A i \in Events("invoke") :
        \A d \in DependsOn(trace[i].step) : SettledBefore(d, i)

\* C2 (amended): a step that the walk executes itself (outside a parallel
\* group) never has its runnable invoked before every step it depends on has
\* settled, whatever the declaration order.
C2_WalkAfterDependencies ==
    \A i \in {k \in Events("invoke") : trace[k].via = "walk"} :
        \A d \in DependsOn(trace[i].step) : SettledBefore(d, i)

\* the walk invoked a step that depends on a step declared after it
C2_Witness ==
    \E i \in Events("invoke") :
        /\ trace[i].via = "walk"
        /\ \E d \in DependsOn(trace[i].step) : DeclIndex(d) > DeclIndex(trace[i].step)

----------------------------------------------------------------------------
(* C3 *)

\* C is the node set of a cycle of the dependency graph
IsCycle(C, ss) ==
    /\ C # {}
    /\ \E p \in Perms(C) :
          \A i \in DOMAIN p : <<p[i], p[(i % Len(p)) + 1]>> \in GraphEdges(ss)

HasCycle(ss) == \E C \in SUBSET DeclaredNames(ss) : IsCycle(C, ss)

AllDepsDeclared(ss) == \A i \in DOMAIN ss : ss[i].depends_on \subseteq DeclaredNames(ss)

\* C3 (as stated): when the depends_on edges (all naming declared steps)
\* contain a cycle, a run that has begun has raised, no runnable or hook was
\* invoked, and the error names every step of some cycle.
C3_CycleNamed ==
    (runs > 0 /\ AllDepsDeclared(steps) /\ HasCycle(steps)) =>
        /\ pc = "raised"
        /\ trace = <<>>
        /\ \E C \in SUBSET DeclaredNames(steps) :
              IsCycle(C, steps) /\ C \subseteq error.names

----------------------------------------------------------------------------
(* C4 *)

\* C4 (as stated): a step skipped because its condition was false has no
\* invocation of its runnable and no start or complete hook in the run, and
\* when the run returns its entry is {output: null, skipped: true}; group
\* members included.
C4_SkippedNeverRuns ==
    \A s \in DeclaredNames(steps) :
        (\E i \in EventsOf("settle", s) : trace[i].tag = "skipped") =>
            /\ EventsOf("invoke", s) = {}
            /\ \A i \in EventsOf("hook", s) :
                  trace[i].tag \notin {"step.on_start", "flow.on_start",
                                       "step.on_complete", "flow.on_complete"}
            /\ pc = "returned" => step_outputs[s] = Entry("skipped", NoneVal)

----------------------------------------------------------------------------
(* C5 *)

\* C5 (as stated): once the runnable of a step with budget N has returned a
\* value after k <= N failed attempts, the step is recorded as succeeded with
\* that value and the runnable was invoked k + 1 times.
C5_RetryThenSuccess ==
    \A s \in DeclaredNames(steps) :
        (\E i \in EventsOf("return", s) : trace[i].tag = "ok") =>
            /\ Cardinality(FailedReturns(s)) <= RetriesOf(GetStepByName(steps, s))
            /\ Cardinality(EventsOf("invoke", s)) = Cardinality(FailedReturns(s)) + 1
            /\ st[s].phase = "succeeded"
            /\ step_outputs[s] =
                  Entry("output", OutputOf(GetStepByName(steps, s).agent_name, initial_input))

----------------------------------------------------------------------------
(* C6 *)

\* C6 (as stated): when the runnable of a step with budget N has failed N + 1
\* times, the step-level and the flow-level on_error hook have each been
\* called exactly once for the step, with the message of the final error,
\* and a run that walks the step itself has raised.
C6_ExhaustedHooks ==
    \A s \in DeclaredNames(steps) :
        Cardinality(FailedReturns(s)) = RetriesOf(GetStepByName(steps, s)) + 1 =>
            /\ Cardinality(HooksOf("step.on_error", s)) = 1
            /\ Cardinality(HooksOf("flow.on_error", s)) = 1
            /\ \A i \in HooksOf("step.on_error", s) \cup HooksOf("flow.on_error", s) :
                  trace[i].arg = st[s].last_exception
            /\ (\E i \in FailedReturns(s) : trace[i].via = "walk") => pc = "raised"

----------------------------------------------------------------------------
(* C7 *)

\* the outcome of the last runnable call of s in the run
LastReturn(s) ==
    LET r == EventsOf("return", s)
    IN IF r = {} THEN "never" ELSE trace[CHOOSE i \in r : \A j \in r : j <= i].tag

\* C7 (as stated): when a parallel group has raised its aggregated error,
\* every member ran to its outcome, the output of each member whose runnable
\* succeeded is recorded, and the error names exactly the members whose
\* runnable failed.
C7_GroupPartialFailure ==
    (pc = "raised" /\ error.kind = "ParallelGroupFailed") =>
        \A m \in grp.members :
            /\ st[m].phase \in {"succeeded", "failed"}
            /\ LastReturn(m) = "ok" =>
                  /\ step_outputs[m].kind = "output"
                  /\ m \notin error.names
            /\ LastReturn(m) # "ok" => m \in error.names

----------------------------------------------------------------------------
(* C8 *)

\* C8 (as stated): every run starts with empty step_outputs.
C8_RunStartsEmpty ==
    [][runs' # runs => \A s \in StepNameSet : step_outputs'[s] = Absent]_vars

----------------------------------------------------------------------------
(* C9 *)

\* the output field of an entry, as run() reads it (lines 252-254)
OutputField(entry) == IF entry.kind = "output" THEN entry.val ELSE NoneVal

\* C9 (as stated): the final output of a returned FlowResult is the output
\* recorded under the step name of the last declared step.
C9_FinalOutputOfLastStep ==
    pc = "returned" =>
        result = OutputField(GetEntry(step_outputs, steps[Len(steps)].step_name))

----------------------------------------------------------------------------
(* TaskContext: resolving references (_task_context.py)                    *)
(*                                                                         *)
(* Strings are sequences of one-character strings.  A Python value that a  *)
(* reference walks through is a record [kind, val]: kind "dict" with val a *)
(* function from keys to values, kind "list" with val a sequence of        *)
(* values, kind "model" (a pydantic BaseModel) with val its model_dump(),  *)
(* kind "str" with val the characters.                                     *)

\* longest reference path explored, in characters
MaxPathLen == 3

\* the characters reference paths are written with
PathChars == {"a", "0", "1", "-", ".", "[", "]", " "}

Str(cs) == [kind |-> "str", val |-> cs]
Dict(f) == [kind |-> "dict", val |-> f]
List(q) == [kind |-> "list", val |-> q]
Model(f) == [kind |-> "model", val |-> f]

\* Python's None as a value
NoneValue == [kind |-> "none", val |-> <<>>]

\* what a resolution gives: a value, or the exception it raises; step and
\* part are the step name and the path segment its message quotes (empty
\* when the message quotes none)
Ok(v) == [ok |-> TRUE, val |-> v, err |-> "none", what |-> "none",
          step |-> <<>>, part |-> <<>>]
Err(kind, what, step, part) ==
    [ok |-> FALSE, val |-> Str(<<>>), err |-> kind, what |-> what,
     step |-> step, part |-> part]

\* the characters str.strip() removes (those of them in PathChars)
Whitespace == {" "}

\* the characters of val.strip("{} ")
TemplateStripChars == {"{", "}", " "}

\* the character class of re.split(r"[\.\[\]]+", ...)
Separators == {".", "[", "]"}

DigitChars == <<"0", "1", "2", "3", "4", "5", "6", "7", "8", "9">>

InputSentinel == <<"{", "{", "i", "n", "p", "u", "t", "}", "}">>

\* str.lstrip(chars), str.rstrip(chars), str.strip(chars)
RECURSIVE LStrip(_, _)
LStrip(s, chars) ==
    IF s # <<>> /\ Head(s) \in chars THEN LStrip(Tail(s), chars) ELSE s

RECURSIVE RStrip(_, _)
RStrip(s, chars) ==
    IF s # <<>> /\ s[Len(s)] \in chars
    THEN RStrip(SubSeq(s, 1, Len(s) - 1), chars) ELSE s

Strip(s, chars) == RStrip(LStrip(s, chars), chars)

\* Python's `sub in s` on strings
Contains(s, sub) ==
    \E i \in 0..(Len(s) - Len(sub)) : SubSeq(s, i + 1, i + Len(sub)) = sub

\* TaskContext._split_reference: the maximal runs of non-separator characters
RECURSIVE SplitReference(_)
SplitReference(agent_ref) ==
    LET s == LStrip(agent_ref, Separators)
    IN IF s = <<>> THEN <<>>
       ELSE LET n == CHOOSE k \in 1..Len(s) :
                        /\ \A j \in 1..k : s[j] \notin Separators
                        /\ k = Len(s) \/ s[k + 1] \in Separators
            IN <<SubSeq(s, 1, n)>> \o SplitReference(SubSeq(s, n + 1, Len(s)))

\* the number a non-empty run of decimal digits denotes
RECURSIVE DigitsVal(_)
DigitsVal(ds) ==
    IF ds = <<>> THEN 0
    ELSE 10 * DigitsVal(SubSeq(ds, 1, Len(ds) - 1))
         + (IndexOf(DigitChars, ds[Len(ds)]) - 1)

\* Python's int(part) on a string: surrounding whitespace is dropped, one
\* sign is allowed, then decimal digits; anything else is a ValueError
ParseInt(part) ==
    LET t == Strip(part, Whitespace)
        signed == t # <<>> /\ t[1] \in {"-", "+"}
        ds == IF signed THEN Tail(t) ELSE t
    IN IF ds # <<>> /\ \A i \in DOMAIN ds : ds[i] \in Range(DigitChars)
       THEN [ok |-> TRUE,
             val |-> IF t[1] = "-" THEN 0 - DigitsVal(ds) ELSE DigitsVal(ds)]
       ELSE [ok |-> FALSE, val |-> 0]

\* line 221 read as dict.get: a missing key gives None
KeyNotFound_AsNone(part, step_name) == Ok(NoneValue)

\* line 221: ChainlessError(f"Dict key '{part}' not found in step ' {step_name}'.")
KeyNotFound(part, step_name) == Err("ChainlessError", "key", step_name, part)

\* lines 196-198 and 127: the step has no entry in step_outputs
NoOutput(step_name) == Err("ChainlessError", "no output", step_name, <<>>)

\* TaskContext._resolve_nested_references
RECURSIVE ResolveNestedReferences(_, _, _)
ResolveNestedReferences(current_data, parts, step_name) ==
    IF parts = <<>> THEN Ok(current_data)
    ELSE LET part == Head(parts)
         IN CASE current_data.kind = "dict" ->
                   IF part \notin DOMAIN current_data.val
                   THEN KeyNotFound(part, step_name)
                   ELSE ResolveNestedReferences(current_data.val[part], Tail(parts),
                                                step_name)
              [] current_data.kind = "list" ->
                   LET index == ParseInt(part)
                       n == Len(current_data.val)
                   IN IF ~index.ok
                      THEN Err("ChainlessError", "index", step_name, part)
                      ELSE IF index.val >= n
                      THEN Err("ChainlessError", "range", step_name, part)
                      ELSE IF index.val < 0 - n
                      THEN Err("IndexError", "range", <<>>, <<>>)
                      ELSE ResolveNestedReferences(
                               current_data.val[IF index.val < 0
                                                THEN n + index.val + 1
                                                ELSE index.val + 1],
                               Tail(parts), step_name)
              [] current_data.kind = "model" ->
                   IF part \notin DOMAIN current_data.val
                   THEN Err("ChainlessError", "attribute", step_name, part)
                   ELSE ResolveNestedReferences(current_data.val[part], Tail(parts),
                                                step_name)
              [] OTHER -> Err("ChainlessError", "type", step_name, part)

\* _resolve_references handing the step's own name on to the traversal
ResolveReferences_KeepsStepPart(outs, agent_ref) ==
    LET parts == SplitReference(agent_ref)
    IN IF parts = <<>> THEN Err("IndexError", "parts", <<>>, <<>>)
       ELSE IF Head(parts) \notin DOMAIN outs
            THEN NoOutput(Head(parts))
            ELSE ResolveNestedReferences(outs[Head(parts)], parts, Head(parts))

\* TaskContext._resolve_references
ResolveReferences(outs, agent_ref) ==
    LET parts == SplitReference(agent_ref)
    IN IF parts = <<>> THEN Err("IndexError", "parts", <<>>, <<>>)
       ELSE IF Head(parts) \notin DOMAIN outs
            THEN NoOutput(Head(parts))
            ELSE ResolveNestedReferences(outs[Head(parts)], Tail(parts), Head(parts))

\* _resolve_value looking the template up among the steps before the aliases
ResolveValue_StepFirst(outs, als, input, val) ==
    IF Contains(val, <<"{", "{">>)
    THEN IF Contains(val, InputSentinel) THEN Ok(Str(input))
         ELSE LET template == Strip(Strip(val, TemplateStripChars), Whitespace)
              IN IF template \in DOMAIN als /\ template \notin DOMAIN outs
                 THEN LET from_step == als[template][1]
                          from_key == als[template][2]
                      IN IF from_step \notin DOMAIN outs
                         THEN NoOutput(from_step)
                         ELSE ResolveNestedReferences(outs[from_step],
                                                      SplitReference(from_key),
                                                      from_step)
                 ELSE ResolveReferences(outs, template)
    ELSE Ok(Str(val))

\* TaskContext._resolve_value on a string val
ResolveValue(outs, als, input, val) ==
    IF Contains(val, <<"{", "{">>)
    THEN IF Contains(val, InputSentinel) THEN Ok(Str(input))
         ELSE LET template == Strip(Strip(val, TemplateStripChars), Whitespace)
              IN IF template \in DOMAIN als
                 THEN LET from_step == als[template][1]
                          from_key == als[template][2]
                      IN IF from_step \notin DOMAIN outs
                         THEN NoOutput(from_step)
                         ELSE ResolveNestedReferences(outs[from_step],
                                                      SplitReference(from_key),
                                                      from_step)
                 ELSE ResolveReferences(outs, template)
    ELSE Ok(Str(val))

----------------------------------------------------------------------------
(* Resolving one recorded output by placeholder and by alias *)

\* the paths an alias or a placeholder is written with
Paths == UNION {[1..k -> PathChars] : k \in 0..MaxPathLen}

\* step names: step() takes any string as step_name
PlainName == <<"S">>
DottedName == <<"S", ".", "a">>
ResolveStepNames == {PlainName, DottedName}

\* recorded values a path walks through
Leaf7 == Str(<<"7">>)
Leaf8 == Str(<<"8">>)
Values ==
    { Leaf7,
      List(<<Leaf7, Dict(<<"a">> :> Leaf8)>>),
      Dict(<<"a">> :> List(<<Leaf7, Leaf8>>) @@ <<"a", " ">> :> Leaf8
           @@ <<"1">> :> Leaf7),
      Model(<<"a">> :> Leaf7 @@ <<"0">> :> Dict(<<"a">> :> Leaf8)) }

\* the contents of ctx.step_outputs: some of the steps have a recorded value
RecordedOutputs ==
    UNION {[D -> Values] : D \in (SUBSET ResolveStepNames) \ {{}}}

AliasName == <<"x">>

\* the template "{{x}}" that names the alias
AliasTemplate == <<"{", "{">> \o AliasName \o <<"}", "}">>

\* the template "{{step.path}}"
Placeholder(step, path) == <<"{", "{">> \o step \o <<".">> \o path \o <<"}", "}">>

Routes == {"placeholder", "alias"}

\* a flow whose step outputs are recorded and that declared
\* alias("x", from_step=step, key=path); the step named need not have run
InitResolve ==
    /\ step_outputs \in RecordedOutputs
    /\ \E step \in ResolveStepNames, path \in Paths :
          aliases = (AliasName :> <<step, path>>)
    /\ resolved = Unresolved
    /\ steps = <<>>
    /\ parallel_groups = <<>>
    /\ retry_on_fail = 0
    /\ agents = << >>
    /\ initial_input = InputOfRun(1)
    /\ order_cache = [set |-> FALSE, val |-> <<>>]
    /\ runs = 0
    /\ pc = "idle"
    /\ order = <<>>
    /\ idx = 0
    /\ executed_steps = {}
    /\ st = [s \in StepNameSet |-> IdleFrame]
    /\ grp = IdleGroup
    /\ trace = <<>>
    /\ error = NoError
    /\ result = NoneVal
    /\ caller = OutsideLoop
    /\ hooks = "return"
    /\ declared = <<>>
    /\ on_step = NoHooks
    /\ memory = NoMemory
    /\ executions = <<>>

\* one call of _resolve_value, on the placeholder or on the alias template
ResolveValueCall(route) ==
    /\ route \notin DOMAIN resolved
    /\ LET val == IF route = "placeholder"
                  THEN Placeholder(aliases[AliasName][1], aliases[AliasName][2])
                  ELSE AliasTemplate
       IN resolved' = resolved @@
              (route :> ResolveValue(step_outputs, aliases, initial_input, val))
    /\ UNCHANGED <<steps, agents, parallel_groups, retry_on_fail, initial_input,
                   step_outputs, order_cache, runs, pc, order, idx,
                   executed_steps, st, grp, trace, error, result, aliases, caller,
                   hooks, declared, on_step, memory,
                   executions>>

NextResolve == \E route \in Routes : ResolveValueCall(route)

SpecResolve == InitResolve /\ [][NextResolve]_vars

\* both routes were resolved
BothResolved == Routes \subseteq DOMAIN resolved

\* the same value, or an error in both cases
SameResult(r1, r2) == r1.ok = r2.ok /\ (r1.ok => r1.val = r2.val)

\* C10 (as stated): for every recorded step output and every path, the
\* placeholder {{step.path}} and an alias declared as (step, path) resolve to
\* the same result: the same value, or an error in both cases.
C10_PlaceholderEqualsAlias ==
    BothResolved => SameResult(resolved["placeholder"], resolved["alias"])

\* a step name that _split_reference keeps in one piece and strip() leaves alone
PlainStepName(step) ==
    /\ step # <<>>
    /\ \A i \in DOMAIN step :
          step[i] \notin Separators \cup TemplateStripChars \cup Whitespace

\* a path that the trimming of the template leaves alone
PlainPath(path) ==
    /\ path = <<>> \/ path[Len(path)] \notin TemplateStripChars \cup Whitespace
    /\ ~Contains(path, <<"{", "{">>)

\* C10 (amended): when the step name contains none of '.', '[', ']', braces or
\* whitespace, and the path does not end in whitespace or a brace and holds
\* no "{{", the placeholder {{step.path}} and an alias declared as
\* (step, path) resolve to the same result: the same value, or an error in
\* both cases.
C10_PlainPlaceholderEqualsAlias ==
    (/\ BothResolved
     /\ PlainStepName(aliases[AliasName][1])
     /\ PlainPath(aliases[AliasName][2]))
    => SameResult(resolved["placeholder"], resolved["alias"])

\* both routes walked two segments of a plainly named step's output down to
\* the same value
C10_Witness ==
    /\ BothResolved
    /\ PlainStepName(aliases[AliasName][1])
    /\ PlainPath(aliases[AliasName][2])
    /\ Len(SplitReference(aliases[AliasName][2])) = 2
    /\ resolved["placeholder"].ok
    /\ resolved["alias"].ok
    /\ resolved["alias"].val = Leaf8

----------------------------------------------------------------------------
(* Strict resolution of a placeholder *)

\* the segments of the placeholder that was resolved: the text between the
\* braces, trimmed, cut at '.', '[' and ']'
PlaceholderSegments ==
    SplitReference(Strip(Placeholder(aliases[AliasName][1], aliases[AliasName][2]),
                         TemplateStripChars \cup Whitespace))

\* following segments through mappings only: <<k>> when a mapping is reached
\* of which the next segment k is no key, <<>> otherwise
RECURSIVE MissingKey(_, _)
MissingKey(v, segs) ==
    IF segs = <<>> \/ v.kind # "dict" THEN <<>>
    ELSE IF Head(segs) \notin DOMAIN v.val THEN <<Head(segs)>>
    ELSE MissingKey(v.val[Head(segs)], Tail(segs))

\* C11: resolving a placeholder whose path cannot be followed raises a
\* resolution error (ChainlessError) and never yields None: when the step it
\* names has no recorded output, and when a segment is no key of the mapping
\* reached; in the latter case the error names the step and the missing key.
C11_StrictResolution ==
    ("placeholder" \in DOMAIN resolved /\ PlaceholderSegments # <<>>) =>
        LET r == resolved["placeholder"]
            named == Head(PlaceholderSegments)
            rest == Tail(PlaceholderSegments)
        IN /\ named \notin DOMAIN step_outputs
                => ~r.ok /\ r.err = "ChainlessError"
           /\ (named \in DOMAIN step_outputs
               /\ MissingKey(step_outputs[named], rest) # <<>>)
                => /\ ~r.ok
                   /\ r.err = "ChainlessError"
                   /\ r.step = named
                   /\ r.part = MissingKey(step_outputs[named], rest)[1]
           /\ r.ok => r.val # NoneValue

\* a placeholder was resolved whose second segment is no key of the mapping
\* recorded for the step its first segment names
C11_Witness ==
    /\ "placeholder" \in DOMAIN resolved
    /\ Len(PlaceholderSegments) = 2
    /\ Head(PlaceholderSegments) \in DOMAIN step_outputs
    /\ MissingKey(step_outputs[Head(PlaceholderSegments)],
                  Tail(PlaceholderSegments)) = <<PlaceholderSegments[2]>>
    /\ ~resolved["placeholder"].ok
    /\ resolved["placeholder"].step = PlaceholderSegments[1]
    /\ resolved["placeholder"].part = PlaceholderSegments[2]

----------------------------------------------------------------------------
(* TaskFlow.run called by a callback of a running event loop *)

\* what the loop of the calling thread has queued: the callback that calls
\* flow.run(), possibly behind another callback
LoopQueues == {<<"caller">>, <<"other", "caller">>}

\* a flow of at most two steps, declared by a thread that runs no loop or by
\* a thread whose event loop is about to run the callback that calls
\* flow.run()
InitLoop ==
    /\ InitFlow
    /\ Len(steps) <= 2
    /\ caller \in {OutsideLoop} \cup {InsideLoop(q) : q \in LoopQueues}

\* The loop's thread runs the next callback of its queue; it runs none while
\* it is blocked.  The callback "caller" calls flow.run(user_input), lines
\* 238-246: initial_input is set, get_running_loop() returns the loop,
\* run_coroutine_threadsafe queues run_async on that same loop and
\* future.result() blocks the thread until the coroutine has run.
LoopRunCallback ==
    /\ caller.loop
    /\ caller.state = "idle"
    /\ caller.ready # <<>>
    /\ IF Head(caller.ready) = "caller"
       THEN /\ initial_input' = InputOfRun(runs + 1)
            /\ runs' = runs + 1
            /\ caller' = [caller EXCEPT
                             !.ready = Append(Tail(caller.ready), "run_async"),
                             !.state = "blocked", !.future = "pending"]
       ELSE /\ caller' = [caller EXCEPT !.ready = Tail(caller.ready)]
            /\ UNCHANGED <<initial_input, runs>>
    /\ UNCHANGED <<steps, agents, parallel_groups, retry_on_fail, step_outputs,
                   order_cache, pc, order, idx, executed_steps, st, grp, trace,
                   error, result, aliases, resolved, hooks, declared, on_step,
                   memory, executions>>

NextLoop == LoopRunCallback \/ Next

SpecLoop == InitLoop /\ [][NextLoop]_vars

\* C12: run() called from a thread that is running an event loop fails with
\* an error: the thread is never left blocked in future.result() on a
\* coroutine that is queued on the loop this same thread has to run.
C12_RunInsideLoopFails ==
    ~(/\ caller.loop
      /\ caller.state = "blocked"
      /\ caller.future = "pending"
      /\ \E i \in DOMAIN caller.ready : caller.ready[i] = "run_async")

----------------------------------------------------------------------------
(* Hooks that raise *)

\* the outcome of the runnable call of s that ended in the step just taken
JustReturned(s) ==
    LET i == Len(trace) + 1 IN trace'[i].tag

\* C13: a lifecycle hook that raises never changes the step's outcome.
\* Whatever the hooks do, a step that is started and whose inputs resolve
\* has its runnable invoked, and a step whose runnable call ends settles as it would with hooks that
\* return: same success or failure, same step_outputs entry, and in a
\* sequential walk the same exception leaving the run.
C13_HooksNeverChangeOutcome ==
    [][\A s \in StepNameSet :
         hooks # "hang" =>
         /\ (st[s].phase = "idle" /\ st'[s].phase # "idle"
                /\ Resolution(s).exc = NoError)
               => st'[s].phase = "invoking"
         /\ (st[s].phase = "invoking" /\ st'[s].phase \in {"succeeded", "failed"})
               => LET ref == AfterAttemptWith(s, JustReturned(s), "return")
                  IN /\ st'[s].phase = ref.frame.phase
                     /\ step_outputs'[s] = IF ref.entry = Absent THEN step_outputs[s]
                                           ELSE ref.entry
                     /\ pc = "step" =>
                           /\ pc' = IF ref.next = "raise" THEN "raised" ELSE "walk"
                           /\ error' = IF ref.next = "raise" THEN ref.exc ELSE error
      ]_vars

\* a run whose hooks all raised returned: its step succeeded, the on_start
\* and on_complete hooks were called and the output is recorded
C13_Witness ==
    /\ hooks = "raise"
    /\ pc = "returned"
    /\ st["A"].phase = "succeeded"
    /\ HooksOf("step.on_start", "A") # {}
    /\ HooksOf("flow.on_complete", "A") # {}
    /\ HooksOf("step.on_complete", "A") # {}
    /\ step_outputs["A"].kind = "output"

----------------------------------------------------------------------------
(* Failures and retries *)

\* the runnable of s has failed once more than its budget allows
BudgetExhausted(s) ==
    Cardinality(FailedReturns(s)) = RetriesOf(GetStepByName(steps, s)) + 1

\* C14 (as stated): when a step has failed with its retry budget exhausted,
\* by an exception of the runnable or by a timeout, step_outputs holds
\* {error: message} for the step from the moment the failure leaves
\* run_step_async (the step is marked failed) on.
C14_FailureRecorded ==
    \A s \in DeclaredNames(steps) :
        (BudgetExhausted(s) /\ st[s].phase = "failed") =>
            step_outputs[s] = Entry("error", st[s].last_exception)

\* the failed runnable calls of s up to and including the one at position i
FailuresUpTo(s, i) == {j \in FailedReturns(s) : j <= i}

\* the runnable calls of s that ended because the step's timeout expired
TimeoutReturns(s) == {i \in EventsOf("return", s) : trace[i].tag = "timeout"}

\* C15 (as stated): a timeout counts like an exception of the runnable for
\* retrying: a timeout that leaves budget is followed by another invocation
\* of the runnable, and a step whose call timed out fails only with its
\* budget exhausted, that is after one failed call more than the budget.
C15_TimeoutRetriedLikeException ==
    \A s \in DeclaredNames(steps) :
        TimeoutReturns(s) # {} =>
            /\ \A i \in TimeoutReturns(s) :
                  Cardinality(FailuresUpTo(s, i)) <= RetriesOf(GetStepByName(steps, s))
                     => \E j \in EventsOf("invoke", s) : j > i
            /\ st[s].phase = "failed" => BudgetExhausted(s)

\* C15, the retrying alone: a timeout that leaves budget is followed by
\* another invocation of the runnable, and a timeout that leaves none makes
\* the step fail.
C15_TimeoutRetried ==
    \A s \in DeclaredNames(steps) :
        \A i \in TimeoutReturns(s) :
            IF Cardinality(FailuresUpTo(s, i)) <= RetriesOf(GetStepByName(steps, s))
            THEN \E j \in EventsOf("invoke", s) : j > i
            ELSE st[s].phase = "failed"

\* C16 (as stated): a step fails only when its runnable raises or its
\* timeout expires: once the runnable of a step that never raised and never
\* timed out has returned, whatever it returned (None included), the step
\* has succeeded, its entry is the returned output, and the on_complete
\* hooks were called and no on_error hook.
C16_ReturnIsSuccess ==
    \A s \in DeclaredNames(steps) :
        (FailedReturns(s) = {} /\ LastReturn(s) \in {"ok", "none"}) =>
            /\ st[s].phase = "succeeded"
            /\ step_outputs[s].kind = "output"
            /\ HooksOf("flow.on_complete", s) # {}
            /\ HooksOf("step.on_complete", s) # {}
            /\ HooksOf("step.on_error", s) \cup HooksOf("flow.on_error", s) = {}

----------------------------------------------------------------------------
(* The walk and its groups *)

\* C17: while a member of the parallel group the walk is running has not
\* settled, the walk stays in the group: no aggregated error is raised, the
\* walk does not advance, and no step outside the group is started.
C17_GroupJoinsAllMembers ==
    [][(/\ pc = "group"
        /\ \E m \in grp.members : st[m].phase \notin {"succeeded", "failed"})
       => /\ pc' = "group"
          /\ error' = error
          /\ idx' = idx
          /\ \A s \in StepNameSet \ grp.members : st'[s] = st[s]
      ]_vars

\* a group raised its aggregated error after one member had failed while
\* the other member's call was still running
C17_Witness ==
    /\ pc = "raised"
    /\ error.kind = "ParallelGroupFailed"
    /\ \E m1, m2 \in grp.members :
          /\ m1 # m2
          /\ st[m1].phase = "failed"
          /\ \E i \in EventsOf("settle", m1), j \in EventsOf("return", m2) : i < j

\* the last failed runnable call of s
LastFailure(s) == CHOOSE i \in FailedReturns(s) : \A j \in FailedReturns(s) : j <= i

\* C18: when a step that the walk runs itself (outside any parallel group)
\* has failed with its retry budget exhausted, the run has raised, it has
\* returned no result, and after the step's last failed call no other step
\* had its runnable or a hook called.
C18_FailureAbortsWalk ==
    \A s \in DeclaredNames(steps) :
        (BudgetExhausted(s) /\ \E i \in FailedReturns(s) : trace[i].via = "walk") =>
            /\ pc = "raised"
            /\ result = NoneVal
            /\ \A j \in DOMAIN trace : j > LastFailure(s) => trace[j].step = s

\* the first step of the order failed in the walk with its budget exhausted
\* after a retry, a later step is declared, and the run raised naming the
\* failed step
C18_Witness ==
    /\ Len(steps) >= 2
    /\ pc = "raised"
    /\ idx = 1
    /\ error.kind = "RuntimeError"
    /\ error.names = {order[1]}
    /\ Cardinality(FailedReturns(order[1])) = 2
    /\ \A i \in FailedReturns(order[1]) : trace[i].via = "walk"

\* C19 (as stated): declarations persist across runs: when a run has ended
\* the flow still holds every group parallel() declared, and in a later run
\* the runnable of a member of a declared group is invoked by a group task.
C19_GroupsPersist ==
    /\ pc \in {"returned", "raised"} => parallel_groups = declared
    /\ runs >= 2 =>
          \A i \in Events("invoke") :
              (\E k \in DOMAIN declared : trace[i].step \in declared[k])
                 => trace[i].via = "group"

----------------------------------------------------------------------------
(* Declarations: TaskFlow.add_agent, TaskFlow.step, TaskFlow.alias *)

\* largest number of steps declared on one flow
MaxDecl == 2

Letters == {"a", "b", "c", "d", "e", "f", "g", "h", "i", "j", "k", "l", "m",
            "n", "o", "p", "q", "r", "s", "t", "u", "v", "w", "x", "y", "z",
            "A", "B", "C", "D", "E", "F", "G", "H", "I", "J", "K", "L", "M",
            "N", "O", "P", "Q", "R", "S", "T", "U", "V", "W", "X", "Y", "Z"}

\* validate_name: re.match(r"^[A-Za-z_][A-Za-z0-9_]*$", name); `$` also
\* matches before one trailing newline
ValidName(name) ==
    LET body == IF name # <<>> /\ name[Len(name)] = "\n"
                THEN SubSeq(name, 1, Len(name) - 1) ELSE name
    IN /\ body # <<>>
       /\ body[1] \in Letters \cup {"_"}
       /\ \A i \in 2..Len(body) : body[i] \in Letters \cup Range(DigitChars) \cup {"_"}

\* the names the caller passes: two identifiers and a name that is none
DeclNames == {<<"a">>, <<"b">>, <<"9">>}

\* the objects the caller registers: two with a callable run, one without
AgentObjects == {"agent1", "agent2", "norun"}

\* is_valid_agent: callable(getattr(agent, "run", None))
IsValidAgent(agent) == agent # "norun"

\* the call that was made last
Call(api, name) ==
    [ev |-> "declare", step |-> name, tag |-> api, arg |-> <<>>, via |-> "caller"]

DeclError(kind, name) == [kind |-> kind, names |-> {name}, msg |-> <<>>]

\* a flow just constructed
InitDeclare ==
    /\ steps = <<>>
    /\ agents = << >>
    /\ aliases = << >>
    /\ parallel_groups = <<>>
    /\ declared = <<>>
    /\ retry_on_fail = 0
    /\ hooks = "return"
    /\ initial_input = <<>>
    /\ step_outputs = << >>
    /\ order_cache = [set |-> FALSE, val |-> <<>>]
    /\ runs = 0
    /\ pc = "idle"
    /\ order = <<>>
    /\ idx = 0
    /\ executed_steps = {}
    /\ st = << >>
    /\ grp = IdleGroup
    /\ trace = <<>>
    /\ error = NoError
    /\ result = NoneVal
    /\ resolved = Unresolved
    /\ caller = OutsideLoop
    /\ on_step = NoHooks
    /\ memory = NoMemory
    /\ executions = <<>>

\* TaskFlow.add_agent(name, agent)
AddAgent(name, agent) ==
    /\ trace' = << Call("add_agent", name) >>
    /\ IF ~ValidName(name)
       THEN error' = DeclError("ValueError", name) /\ UNCHANGED agents
       ELSE IF name \in DOMAIN agents
       THEN error' = DeclError("ChainlessError", name) /\ UNCHANGED agents
       ELSE IF ~IsValidAgent(agent)
       THEN error' = DeclError("ChainlessError", name) /\ UNCHANGED agents
       ELSE error' = NoError /\ agents' = agents @@ (name :> agent)
    /\ UNCHANGED <<steps, aliases, on_step>>

\* a check that finds no step
StepExists_Never(ss, step_name) == FALSE

\* line 179: any(s.step_name == step_name for s in self.ctx.steps)
StepExists(ss, step_name) == \E i \in DOMAIN ss : ss[i].step_name = step_name

\* the on_start / on_complete / on_error arguments of one step() call
NoStepHooks == [slot \in StepSlots |-> NoCallback]

\* TaskStep(...): the fields on_start, on_complete, on_error are declared
\* Optional[Callable]; the model's validation accepts None and any callable
\* and rejects every other object
TaskStepAccepts(cbs) ==
    \A slot \in StepSlots : cbs[slot].kind \in {"None", "function"}

\* TaskFlow.step(agent_name, input_map, step_name=..., on_start=...,
\* on_complete=..., on_error=...); step_name is NoneVal when the caller
\* passes none; cbs holds the three hook arguments
StepDecl(agent_name, step_name, cbs) ==
    LET name == IF step_name = NoneVal THEN agent_name ELSE step_name
    IN /\ Len(steps) < MaxDecl
       /\ trace' = << [Call("step", name) EXCEPT !.arg = cbs] >>
       /\ IF StepExists(steps, name)
          THEN error' = DeclError("ChainlessError", name) /\ UNCHANGED steps
          ELSE IF ~TaskStepAccepts(cbs)
          THEN error' = DeclError("ValidationError", name) /\ UNCHANGED steps
          ELSE /\ error' = NoError
               /\ steps' = Append(steps, MkStep(name, agent_name, {}, "None",
                                                NoneInt, 0) @@ cbs)
       /\ UNCHANGED <<agents, aliases, on_step>>

\* a step() call that passes no hooks
Step(agent_name, step_name) == StepDecl(agent_name, step_name, NoStepHooks)

\* TaskFlow.alias(alias_name, from_step, key)
Alias(alias_name, from_step, key) ==
    /\ trace' = << Call("alias", alias_name) >>
    /\ IF ~ValidName(alias_name)
       THEN error' = DeclError("ValueError", alias_name) /\ UNCHANGED aliases
       ELSE IF alias_name \in DOMAIN aliases
       THEN error' = DeclError("ValueError", alias_name) /\ UNCHANGED aliases
       ELSE error' = NoError /\ aliases' = aliases @@ (alias_name :> <<from_step, key>>)
    /\ UNCHANGED <<steps, agents, on_step>>

declUnchanged == <<parallel_groups, declared, retry_on_fail, hooks, initial_input,
                   step_outputs, order_cache, runs, pc, order, idx,
                   executed_steps, st, grp, result, resolved, caller, memory,
                   executions>>

NextDeclare ==
    \/ \E name \in DeclNames, agent \in AgentObjects :
          AddAgent(name, agent) /\ UNCHANGED declUnchanged
    \/ \E agent_name \in DeclNames, step_name \in DeclNames \cup {NoneVal} :
          Step(agent_name, step_name) /\ UNCHANGED declUnchanged
    \/ \E alias_name \in DeclNames, from_step \in DeclNames :
          Alias(alias_name, from_step, <<"k">>) /\ UNCHANGED declUnchanged

SpecDeclare == InitDeclare /\ [][NextDeclare]_vars

\* the call just made names something that is declared already
DuplicateCall ==
    LET c == trace'[1]
    IN \/ c.tag = "add_agent" /\ c.step \in DOMAIN agents
       \/ c.tag = "step" /\ \E i \in DOMAIN steps : steps[i].step_name = c.step
       \/ c.tag = "alias" /\ c.step \in DOMAIN aliases

\* C20: after any sequence of add_agent, step and alias calls the step names
\* are pairwise distinct, each registered name has one runnable and each
\* alias name one target; a call that would add a duplicate raises an error
\* and leaves the registry, the step list and the alias table unchanged.
C20_NamesUnique ==
    [][/\ \A i, j \in DOMAIN steps' :
             i # j => steps'[i].step_name # steps'[j].step_name
       /\ DuplicateCall =>
             /\ error' # NoError
             /\ agents' = agents
             /\ steps' = steps
             /\ aliases' = aliases
      ]_vars

\* a step, an agent and an alias are declared and the last call, which
\* repeated a declared step name, raised
C20_Witness ==
    /\ Len(steps) >= 1
    /\ DOMAIN agents # {}
    /\ DOMAIN aliases # {}
    /\ trace # <<>>
    /\ trace[1].tag = "step"
    /\ \E i \in DOMAIN steps : steps[i].step_name = trace[1].step
    /\ error.kind = "ChainlessError"

----------------------------------------------------------------------------
(* Declaring hooks: TaskFlow.__init__ and TaskFlow.step *)

\* validate_callback(callback, expected_args, name): the exception it
\* raises, NoError when it returns
ValidateCallback(callback, expected_args) ==
    IF callback.kind = "None" THEN NoError
    ELSE IF callback.kind # "function"
    THEN [kind |-> "TypeError", names |-> {}, msg |-> <<"must be a callable function">>]
    ELSE IF callback.params # expected_args
    THEN [kind |-> "TypeError", names |-> {}, msg |-> <<"must have arguments">>]
    ELSE NoError

\* lines 71-80: each hook argument that is truthy is validated, in the
\* order start, complete, error; the first exception leaves the constructor
ConstructorCheck(cbs) ==
    LET check(slot) == IF cbs[slot].truthy
                       THEN ValidateCallback(cbs[slot], ExpectedArgs(slot))
                       ELSE NoError
    IN IF check("on_step_start") # NoError THEN check("on_step_start")
       ELSE IF check("on_step_complete") # NoError THEN check("on_step_complete")
       ELSE check("on_step_error")

\* TaskFlow(name, on_step_start=..., on_step_complete=..., on_step_error=...)
\* with a valid name: the caller goes on with the new flow, or keeps the
\* flow it had when the constructor raises
Construct(cbs) ==
    /\ trace' = << [Call("TaskFlow", <<"flow">>) EXCEPT !.arg = cbs] >>
    /\ error' = ConstructorCheck(cbs)
    /\ IF ConstructorCheck(cbs) # NoError
       THEN UNCHANGED <<steps, agents, aliases, on_step>>
       ELSE /\ steps' = <<>>
            /\ agents' = << >>
            /\ aliases' = << >>
            /\ on_step' = cbs

\* the values callers pass as hooks
Callbacks ==
    {NoCallback, NotCallable(TRUE), NotCallable(FALSE), Fn(<<"step_name">>)}
    \cup {Fn(ExpectedArgs(slot)) : slot \in FlowSlots}

\* the hook arguments of one call: at most one of them is not None
HookArgs(slots) ==
    {cbs \in [slots -> Callbacks] :
        \A s1, s2 \in slots : cbs[s1] # NoCallback /\ cbs[s2] # NoCallback => s1 = s2}

NextCallbacks ==
    \/ \E cbs \in HookArgs(FlowSlots) : Construct(cbs) /\ UNCHANGED declUnchanged
    \/ \E step_name \in {<<"a">>, <<"b">>}, cbs \in HookArgs(StepSlots) :
          StepDecl(<<"a">>, step_name, cbs) /\ UNCHANGED declUnchanged

SpecCallbacks == InitDeclare /\ [][NextCallbacks]_vars

\* a function whose parameter names are not those of the role of the slot
Mismatched(cb, slot) == cb.kind = "function" /\ cb.params # ExpectedArgs(slot)

\* C21: a declaration (the constructor for flow-level hooks, step() for
\* step-level hooks) that is passed a hook whose parameters do not match its
\* role raises, and no hook slot ever holds such a hook.
C21_MismatchedHookRejected ==
    [][/\ (\E slot \in DOMAIN trace'[1].arg : Mismatched(trace'[1].arg[slot], slot))
            => error' # NoError
       /\ \A slot \in FlowSlots : ~Mismatched(on_step'[slot], slot)
       /\ \A i \in DOMAIN steps', slot \in StepSlots : ~Mismatched(steps'[i][slot], slot)
      ]_vars

----------------------------------------------------------------------------
(* C22 *)

\* the (step, dependency) pairs whose dependency is no declared step name
UndeclaredDependencies ==
    {x \in DeclaredNames(steps) \X (StepNameSet \cup {Ghost}) :
        /\ x[2] \in GetStepByName(steps, x[1]).depends_on
        /\ x[2] \notin DeclaredNames(steps)}

----------------------------------------------------------------------------
(* C23 *)

\* the step's input map refers to a step that never has an output, or its
\* prompt template names a key the input map does not have
Unresolvable(s) ==
    \/ GetStepByName(steps, s).input_map = Ghost
    \/ GetStepByName(steps, s).prompt_template # "None"

\* C23: a step whose input map or prompt template cannot be resolved never
\* has its runnable invoked, whatever its retry budget; once the step was
\* started it has failed with its retry budget untouched, and the run has
\* raised or the step's group has recorded its error.
C23_ResolutionErrorNotRetried ==
    \A s \in DeclaredNames(steps) :
        Unresolvable(s) =>
            /\ EventsOf("invoke", s) = {}
            /\ st[s].phase \in {"idle", "failed"}
            /\ st[s].phase = "failed" =>
                  /\ st[s].retries = RetriesOf(GetStepByName(steps, s))
                  /\ st[s].attempts = 1
                  /\ pc = "raised" \/ s \in ErrorMembers(grp)

\* a step with a retry budget of one and an unresolvable reference was
\* started, and the run raised the resolution error
C23_Witness ==
    \E s \in DeclaredNames(steps) :
        /\ GetStepByName(steps, s).input_map = Ghost
        /\ RetriesOf(GetStepByName(steps, s)) = 1
        /\ st[s].phase = "failed"
        /\ pc = "raised"
        /\ error.kind = "ChainlessError"

----------------------------------------------------------------------------
(* C24 *)

\* the current run has written the step_outputs entry of s: the step was
\* skipped (line 336), succeeded (line 222) or failed with its error
\* recorded (line 212, followed by the step-level on_error hook)
WrittenThisRun(s) ==
    \/ \E i \in EventsOf("settle", s) : trace[i].tag \in {"skipped", "succeeded"}
    \/ HooksOf("step.on_error", s) # {}

\* C24: within one run, once the step_outputs entry of a step has been
\* written it is neither overwritten nor removed during that run.
C24_WrittenOnce ==
    [][\A s \in StepNameSet :
         (runs' = runs /\ WrittenThisRun(s)) => step_outputs'[s] = step_outputs[s]
      ]_vars

\* the same, for the steps that no parallel group lists
C24_WrittenOnceOutsideGroups ==
    [][\A s \in StepNameSet :
         (runs' = runs /\ WrittenThisRun(s) /\ \A k \in DOMAIN declared : s \notin declared[k])
            => step_outputs'[s] = step_outputs[s]
      ]_vars

----------------------------------------------------------------------------
(* C25 *)

\* C25: evaluating a step's condition never makes the run raise: no run
\* ends with the exception of a condition.
C25_ConditionNeverRaises ==
    ~(pc = "raised" /\ error = ConditionError)

\* a condition result that is no boolean is treated as false: a step does
\* not run after its condition gave such a result, and the walk goes on
C25_NonBoolSkips ==
    [][\A s \in StepNameSet :
         (pc = "walk" /\ idx <= Len(order) /\ order[idx] = s /\ trace' # trace
            /\ trace'[Len(trace')].ev = "settle" /\ trace'[Len(trace')].tag = "skipped")
         => /\ pc' = "walk"
            /\ idx' = idx + 1
            /\ step_outputs'[s] = Entry("skipped", NoneVal)
      ]_vars

----------------------------------------------------------------------------
(* C26 *)

\* the errors the group recorded for member m
ErrorsOf(m) == {i \in DOMAIN grp.errors : grp.errors[i].n = m}

\* C26: when a parallel group has raised its aggregated error, the
\* flow-level on_error hook was called exactly once for each failed member,
\* with the member's step name and the message of its error.
C26_GroupErrorHookOnce ==
    (pc = "raised" /\ error.kind = "ParallelGroupFailed") =>
        \A m \in ErrorMembers(grp) :
            /\ Cardinality(HooksOf("flow.on_error", m)) = 1
            /\ \A i \in HooksOf("flow.on_error", m) :
                  \E k \in ErrorsOf(m) : trace[i].arg = grp.errors[k].e.msg

\* the same for the members whose runnable raised or was cancelled by the
\* timeout on every attempt
C26_GroupErrorHookOnceWhenExhausted ==
    (pc = "raised" /\ error.kind = "ParallelGroupFailed") =>
        \A m \in ErrorMembers(grp) :
            (\A i \in EventsOf("return", m) : trace[i].tag \in {"raise", "timeout"}) =>
                /\ Cardinality(HooksOf("flow.on_error", m)) = 1
                /\ \A i \in HooksOf("flow.on_error", m) :
                      \E k \in ErrorsOf(m) : trace[i].arg = grp.errors[k].e.msg

----------------------------------------------------------------------------
(* Hooks that never return *)

\* a flow of at most two steps without dependencies, each run by the agent
\* of its own name, whose inputs resolve
InitFair ==
    /\ Init
    /\ Len(steps) <= 2
    /\ \A i \in DOMAIN steps :
          /\ steps[i].depends_on = {}
          /\ steps[i].agent_name = steps[i].step_name
          /\ steps[i].input_map = InputRef
          /\ steps[i].prompt_template = "None"

\* The event loop keeps running whatever is ready: the walk, the tasks of a
\* group and the runnable calls that end are taken as long as one of them
\* can be.
SpecFair == InitFair /\ [][Next]_vars /\ WF_vars(Next)

\* C27: a lifecycle hook that never returns does not prevent its step from
\* settling: a step that waits in a hook call is eventually past it, with
\* its outcome.
C27_HookDoesNotBlock ==
    \A s \in StepNameSet :
        (st[s].phase = "in_hook") ~> (st[s].phase \in {"succeeded", "failed"})

----------------------------------------------------------------------------
(* Memory (memory.py) *)

\* largest max_messages a Memory is created with
MaxWindow == 2
\* largest number of messages added to one Memory between two clear() calls
MaxAdds == 4

\* the contents callers pass: two strings and an object that is no str
Contents == {[type |-> "str", text |-> "hello"], [type |-> "str", text |-> "bye"],
             [type |-> "int", text |-> "7"]}

\* isinstance(content, str)
IsStr(content) == content.type = "str"

UserMessage(content) == [role |-> "user", content |-> content]
AssistantMessage(content) == [role |-> "assistant", content |-> content]

\* a window that keeps the oldest messages
SliceLast_KeepsFirst(q, n) == IF Len(q) <= n THEN q ELSE SubSeq(q, 1, n)

\* q[-n:] for n > 0: the last n elements, the whole list when it is shorter
SliceLast(q, n) == IF Len(q) <= n THEN q ELSE SubSeq(q, Len(q) - n + 1, Len(q))

\* the object Memory(max_messages) creates (lines 33-34)
FreshMemory(max_messages) ==
    [max_messages |-> max_messages, messages |-> <<>>, added |-> <<>>,
     op |-> "Memory", got |-> <<>>, exc |-> "none"]

\* Memory(max_messages) with an int (lines 30-34): the caller goes on with
\* the new object, or keeps the one it had when the constructor raises
NewMemory(max_messages) ==
    memory' = IF max_messages <= 0
              THEN [memory EXCEPT !.op = "Memory", !.exc = "ValueError"]
              ELSE FreshMemory(max_messages)

\* Memory._add(message) (lines 70-75); added is the observation of every
\* message passed to _add since the last clear()
MemoryAdd(mem, message) ==
    LET appended == Append(mem.messages, message)
    IN [mem EXCEPT !.messages = IF Len(appended) > mem.max_messages
                                 THEN SliceLast(appended, mem.max_messages)
                                 ELSE appended,
                   !.added = Append(mem.added, message)]

\* Memory.add_user(content) (lines 36-51)
AddUser(content) ==
    /\ memory.max_messages > 0
    /\ Len(memory.added) < MaxAdds
    /\ memory' = IF ~IsStr(content)
                 THEN [memory EXCEPT !.op = "add_user", !.exc = "TypeError"]
                 ELSE [MemoryAdd(memory, UserMessage(content)) EXCEPT
                          !.op = "add_user", !.exc = "none"]

\* Memory.add_assistant(content) (lines 53-68)
AddAssistant(content) ==
    /\ memory.max_messages > 0
    /\ Len(memory.added) < MaxAdds
    /\ memory' = IF ~IsStr(content)
                 THEN [memory EXCEPT !.op = "add_assistant", !.exc = "TypeError"]
                 ELSE [MemoryAdd(memory, AssistantMessage(content)) EXCEPT
                          !.op = "add_assistant", !.exc = "none"]

\* Memory.get() (lines 77-86): a copy of the list
MemoryGet ==
    /\ memory.max_messages > 0
    /\ memory' = [memory EXCEPT !.op = "get", !.got = memory.messages, !.exc = "none"]

\* Memory.clear() (lines 88-92)
MemoryClear ==
    /\ memory.max_messages > 0
    /\ memory' = [memory EXCEPT !.op = "clear", !.messages = <<>>, !.added = <<>>,
                                !.exc = "none"]

\* a Memory just created with a window of 1..MaxWindow; no flow is in use
InitMemory ==
    /\ memory \in {FreshMemory(m) : m \in 1..MaxWindow}
    /\ executions = <<>>
    /\ steps = <<>>
    /\ agents = << >>
    /\ aliases = << >>
    /\ parallel_groups = <<>>
    /\ declared = <<>>
    /\ retry_on_fail = 0
    /\ hooks = "return"
    /\ on_step = NoHooks
    /\ initial_input = <<>>
    /\ step_outputs = << >>
    /\ order_cache = [set |-> FALSE, val |-> <<>>]
    /\ runs = 0
    /\ pc = "idle"
    /\ order = <<>>
    /\ idx = 0
    /\ executed_steps = {}
    /\ st = << >>
    /\ grp = IdleGroup
    /\ trace = <<>>
    /\ error = NoError
    /\ result = NoneVal
    /\ resolved = Unresolved
    /\ caller = OutsideLoop

memoryUnchanged == <<steps, agents, parallel_groups, retry_on_fail, initial_input,
                     step_outputs, order_cache, runs, pc, order, idx,
                     executed_steps, st, grp, trace, error, result, aliases,
                     resolved, caller, hooks, declared, on_step, executions>>

NextMemory ==
    \/ \E m \in 0..MaxWindow : NewMemory(m) /\ UNCHANGED memoryUnchanged
    \/ \E content \in Contents : AddUser(content) /\ UNCHANGED memoryUnchanged
    \/ \E content \in Contents : AddAssistant(content) /\ UNCHANGED memoryUnchanged
    \/ MemoryGet /\ UNCHANGED memoryUnchanged
    \/ MemoryClear /\ UNCHANGED memoryUnchanged

SpecMemory == InitMemory /\ [][NextMemory]_vars

\* the last n elements of q, oldest first (all of q when it is shorter)
LastN(q, n) ==
    LET k == IF Len(q) < n THEN Len(q) ELSE n
    IN [i \in 1..k |-> q[Len(q) - k + i]]

\* C28: whatever add_user, add_assistant and clear calls were made on a
\* Memory created with max_messages = M, get() returns at most M messages:
\* the most recently added ones since the last clear, oldest first.
C28_SlidingWindow ==
    [][memory'.op = "get" =>
          /\ Len(memory'.got) <= memory'.max_messages
          /\ memory'.got = LastN(memory'.added, memory'.max_messages)
      ]_vars

\* get() was called on a Memory of window two after three messages were
\* added since the last clear, and returned the last two
C28_Witness ==
    /\ memory.op = "get"
    /\ memory.max_messages = 2
    /\ Len(memory.added) = 3
    /\ memory.got = <<memory.added[2], memory.added[3]>>
    /\ memory.added[1] # memory.added[2]

----------------------------------------------------------------------------
(* C29 *)

\* some event of I comes before some event of J, which comes before k
InOrderBefore(I, J, k) == \E i \in I, j \in J : i < j /\ j < k

\* some event of I comes after k and before some event of J
InOrderAfter(k, I, J) == \E i \in I, j \in J : k < i /\ i < j

\* on_start: step-level, then flow-level, both before the first invocation
StartOrder(s) ==
    \A k \in EventsOf("invoke", s) :
        InOrderBefore(HooksOf("step.on_start", s), HooksOf("flow.on_start", s), k)

\* on success: flow-level on_complete, then step-level, both after the
\* output is recorded
CompleteOrder(s) ==
    \A k \in EventsOf("settle", s) :
        trace[k].tag = "succeeded" =>
            InOrderAfter(k, HooksOf("flow.on_complete", s), HooksOf("step.on_complete", s))

\* on the final failure of the runnable: every flow-level on_error call
\* comes after a step-level one, which comes after the error was recorded
ErrorOrder(s) ==
    \A j \in HooksOf("flow.on_error", s) :
        EventsOf("return", s) # {} =>
            /\ \E k \in EventsOf("settle", s), i \in HooksOf("step.on_error", s) :
                  trace[k].tag = "failed" /\ k < i /\ i < j
            /\ step_outputs[s].kind = "error"

\* C29: the hooks of one step fire in a fixed order: on_start step-level
\* then flow-level before the first invocation; on success on_complete
\* flow-level then step-level after the output is recorded; on final failure
\* on_error step-level then flow-level after the error is recorded.
C29_HookOrder ==
    hooks # "hang" =>
        \A s \in DeclaredNames(steps) :
            StartOrder(s) /\ CompleteOrder(s) /\ ErrorOrder(s)

\* the on_start and on_complete part alone
C29_StartAndCompleteOrder ==
    hooks # "hang" =>
        \A s \in DeclaredNames(steps) : StartOrder(s) /\ CompleteOrder(s)

\* the on_error part for the steps that the walk runs itself
C29_ErrorOrderInWalk ==
    \A s \in DeclaredNames(steps) :
        (\A i \in EventsOf("hook", s) : trace[i].via = "walk") => ErrorOrder(s)

----------------------------------------------------------------------------
(* C30 *)

\* the budget the claim gives step s: its own retry_on_fail when it gave
\* one, 0 included, else the flow's
ClaimedBudget(s) ==
    LET own == GetStepByName(steps, s).retry_on_fail
    IN IF own = NoneInt THEN retry_on_fail ELSE own

Smaller(a, b) == IF a < b THEN a ELSE b

\* C30: a step's own retry_on_fail, when given (0 included), is its retry
\* budget, and the flow-level value is the budget of the steps that give
\* none: the runnable of a step fails at most budget + 1 times in a run and
\* is invoked again after each failure that the budget covers, and only
\* then.
C30_StepBudgetOverrides ==
    \A s \in DeclaredNames(steps) :
        /\ Cardinality(FailedReturns(s)) <= ClaimedBudget(s) + 1
        /\ EventsOf("invoke", s) # {} =>
              Cardinality(EventsOf("invoke", s)) =
                  1 + Smaller(Cardinality(FailedReturns(s)), ClaimedBudget(s))

\* a step declared with retry_on_fail = 0 in a flow whose retry_on_fail is
\* 1 failed once and was not retried: the run raised
C30_Witness ==
    \E s \in DeclaredNames(steps) :
        /\ GetStepByName(steps, s).retry_on_fail = 0
        /\ retry_on_fail = 1
        /\ Cardinality(FailedReturns(s)) = 1
        /\ Cardinality(EventsOf("invoke", s)) = 1
        /\ pc = "raised"

----------------------------------------------------------------------------
(* resolve_input: resolving and splitting a whole input map *)

\* the most entries an input map has
MaxKeys == 3

\* RESERVED_KEYS of _task_context.py
RESERVED_KEYS == {"input", "model", "model_settings", "usage_limits", "usage",
                  "message_history", "pre_hooks", "post_hooks", "extra_inputs"}

\* the keys input maps are written with: two that the runnable's call
\* contract names, "extra_inputs" itself, and two of the caller's own
InputKeys == {"input", "model", "extra_inputs", "topic", "note"}

\* the values input maps are written with: the run's input, a reference
\* into a step's output, and a literal
InputValues == {InputSentinel, Placeholder(PlainName, <<"a">>), <<"7">>}

\* input maps: a dict keeps its entries in insertion order, its keys differ
InputMaps ==
    {q \in UNION {[1..k -> InputKeys \X InputValues] : k \in 0..MaxKeys} :
        \A i, j \in 1..Len(q) : i # j => q[i][1] # q[j][1]}

\* input_map.keys()
KeysOf(input_map) == {input_map[i][1] : i \in 1..Len(input_map)}

\* split_inputs: the entries under reserved keys, and the others
SplitInputs(resolved_inputs) ==
    [reserved |-> [key \in DOMAIN resolved_inputs \cap RESERVED_KEYS |->
                       resolved_inputs[key]],
     extra |-> [key \in DOMAIN resolved_inputs \ RESERVED_KEYS |->
                       resolved_inputs[key]]]

\* lines 105-110: a ChainlessError is raised again as it is, any other
\* exception as ChainlessError("Failed to resolve '<key>': ...")
Reraise(r) ==
    IF r.err = "ChainlessError" THEN r
    ELSE Err("ChainlessError", "failed to resolve", <<>>, <<>>)

\* TaskContext.resolve_input: the entries are resolved in order, the first
\* that fails raises; line 113 sets "extra_inputs" after the split
ResolveInputMap(outs, als, input, input_map) ==
    LET r(i) == ResolveValue(outs, als, input, input_map[i][2])
        failing == {i \in 1..Len(input_map) : ~r(i).ok}
    IN IF failing # {}
       THEN Reraise(r(CHOOSE i \in failing : \A j \in failing : i <= j))
       ELSE LET resolved_inputs ==
                    [key \in KeysOf(input_map) |->
                        r(CHOOSE i \in 1..Len(input_map) :
                              input_map[i][1] = key).val]
                split == SplitInputs(resolved_inputs)
            IN Ok(("extra_inputs" :> Dict(split.extra)) @@ split.reserved)

\* a step declared with an input map, in a flow whose step S may have a
\* recorded output
InitInput ==
    /\ \E input_map \in InputMaps :
          steps = <<[step_name |-> "A", input_map |-> input_map]>>
    /\ step_outputs \in {<< >>, PlainName :> Dict(<<"a">> :> Leaf8)}
    /\ aliases = << >>
    /\ resolved = Unresolved
    /\ parallel_groups = <<>>
    /\ retry_on_fail = 0
    /\ agents = << >>
    /\ initial_input = InputOfRun(1)
    /\ order_cache = [set |-> FALSE, val |-> <<>>]
    /\ runs = 0
    /\ pc = "idle"
    /\ order = <<>>
    /\ idx = 0
    /\ executed_steps = {}
    /\ st = [s \in StepNameSet |-> IdleFrame]
    /\ grp = IdleGroup
    /\ trace = <<>>
    /\ error = NoError
    /\ result = NoneVal
    /\ caller = OutsideLoop
    /\ hooks = "return"
    /\ declared = <<>>
    /\ on_step = NoHooks
    /\ memory = NoMemory
    /\ executions = <<>>

\* run_step_async line 82: resolved_input = self.ctx.resolve_input(input_map)
ResolveInputCall ==
    /\ "resolve_input" \notin DOMAIN resolved
    /\ resolved' = ("resolve_input" :>
                       ResolveInputMap(step_outputs, aliases, initial_input,
                                       steps[1].input_map))
    /\ UNCHANGED <<steps, agents, parallel_groups, retry_on_fail, initial_input,
                   step_outputs, order_cache, runs, pc, order, idx,
                   executed_steps, st, grp, trace, error, result, aliases, caller,
                   hooks, declared, on_step, memory,
                   executions>>

NextInput == ResolveInputCall

SpecInput == InitInput /\ [][NextInput]_vars

\* resolve_input returned a dict
InputResolved ==
    "resolve_input" \in DOMAIN resolved /\ resolved["resolve_input"].ok

\* what _resolve_value gives for the entry under key
ResolvedValue(key) ==
    LET input_map == steps[1].input_map
        i == CHOOSE i \in 1..Len(input_map) : input_map[i][1] = key
    IN ResolveValue(step_outputs, aliases, initial_input, input_map[i][2]).val

\* the entry of the input map under key is in the returned dict, once: at
\* the top level if the key is reserved, inside extra_inputs otherwise
Placed(key) ==
    LET out == resolved["resolve_input"].val
        extra == out["extra_inputs"].val
    IN IF key \in RESERVED_KEYS
       THEN /\ key \in DOMAIN out
            /\ out[key] = ResolvedValue(key)
            /\ key \notin DOMAIN extra
       ELSE /\ key \in DOMAIN extra
            /\ extra[key] = ResolvedValue(key)
            /\ key \notin DOMAIN out

\* C31: resolve_input partitions the resolved input map: every key of the
\* input map appears exactly once in the result with its resolved value, at
\* the top level if it is a reserved parameter name and inside extra_inputs
\* otherwise; no entry of the input map is dropped.
C31_InputPartition ==
    InputResolved => \A key \in KeysOf(steps[1].input_map) : Placed(key)

\* the same for every key but "extra_inputs", and the result has no entry
\* the input map did not give it except extra_inputs
C31_PartitionOfOtherKeys ==
    InputResolved =>
        /\ \A key \in KeysOf(steps[1].input_map) \ {"extra_inputs"} : Placed(key)
        /\ DOMAIN resolved["resolve_input"].val \subseteq
               KeysOf(steps[1].input_map) \cup {"extra_inputs"}
        /\ DOMAIN resolved["resolve_input"].val["extra_inputs"].val \subseteq
               KeysOf(steps[1].input_map)

----------------------------------------------------------------------------
(* Placeholders that name an alias, a step, or both *)

\* names that validate_name accepts as alias names; steps take them too
InputName == <<"i", "n", "p", "u", "t">>
SharedNames == {<<"S">>, <<"T">>, InputName}

\* "{{name}}" and "{{ name }}"
Pads == {<<>>, <<" ">>}
WholePlaceholder(name, pad) ==
    <<"{", "{">> \o pad \o name \o pad \o <<"}", "}">>

\* step_outputs: each of the names may be a step with a recorded output
SharedOutputs ==
    UNION {[D -> {Leaf7, Dict(<<"a">> :> Leaf8)}] : D \in SUBSET SharedNames}

\* ctx._aliases: each of the names may be an alias, declared by
\* alias(name, from_step, "a")
SharedAliases ==
    UNION {[D -> SharedNames \X {<<"a">>}] : D \in SUBSET SharedNames}

InitAlias ==
    /\ step_outputs \in SharedOutputs
    /\ aliases \in SharedAliases
    /\ resolved = Unresolved
    /\ steps = <<>>
    /\ parallel_groups = <<>>
    /\ retry_on_fail = 0
    /\ agents = << >>
    /\ initial_input = InputOfRun(1)
    /\ order_cache = [set |-> FALSE, val |-> <<>>]
    /\ runs = 0
    /\ pc = "idle"
    /\ order = <<>>
    /\ idx = 0
    /\ executed_steps = {}
    /\ st = [s \in StepNameSet |-> IdleFrame]
    /\ grp = IdleGroup
    /\ trace = <<>>
    /\ error = NoError
    /\ result = NoneVal
    /\ caller = OutsideLoop
    /\ hooks = "return"
    /\ declared = <<>>
    /\ on_step = NoHooks
    /\ memory = NoMemory
    /\ executions = <<>>

\* one call of _resolve_value on a placeholder whose whole path is name
ResolveNameCall(name, pad) ==
    /\ resolved' = [name |-> name,
                    val |-> WholePlaceholder(name, pad),
                    got |-> ResolveValue(step_outputs, aliases, initial_input,
                                         WholePlaceholder(name, pad))]
    /\ UNCHANGED <<steps, agents, parallel_groups, retry_on_fail, initial_input,
                   step_outputs, order_cache, runs, pc, order, idx,
                   executed_steps, st, grp, trace, error, result, aliases, caller,
                   hooks, declared, on_step, memory,
                   executions>>

NextAlias == \E name \in SharedNames, pad \in Pads : ResolveNameCall(name, pad)

SpecAlias == InitAlias /\ [][NextAlias]_vars

\* what following the alias's (step, key) pair gives
ThroughAlias(name) ==
    LET from_step == aliases[name][1]
        from_key == aliases[name][2]
    IN IF from_step \in DOMAIN step_outputs
       THEN ResolveNestedReferences(step_outputs[from_step],
                                    SplitReference(from_key), from_step)
       ELSE NoOutput(from_step)

\* the call resolved the placeholder as the claim says: through the alias
\* when an alias has the name, to the raw output of the step of that name
\* when no alias has it and the step has an output
AliasFirst(name, got) ==
    /\ name \in DOMAIN aliases => got = ThroughAlias(name)
    /\ name \notin DOMAIN aliases /\ name \in DOMAIN step_outputs =>
          got = Ok(step_outputs[name])

\* C32 as stated: a placeholder whose whole path equals a declared alias
\* name resolves through the alias's (step, key) pair even if a step with
\* the same name has a recorded output; the step's raw output is returned
\* only when no alias has that name.
C32_AliasPrecedence ==
    resolved # Unresolved => AliasFirst(resolved.name, resolved.got)

\* C32, amended: the same for every placeholder but the text {{input}}
\* written without spaces, which gives the run's initial input whatever
\* aliases and steps are declared.
C32_AliasPrecedenceExceptInput ==
    resolved # Unresolved =>
        IF resolved.val = InputSentinel
        THEN resolved.got = Ok(Str(initial_input))
        ELSE AliasFirst(resolved.name, resolved.got)

\* a name is both an alias (to another step's key) and a step with a
\* recorded output; the placeholder gave the aliased value, which is not
\* the step's raw output
C32_Witness ==
    /\ resolved # Unresolved
    /\ resolved.val # InputSentinel
    /\ resolved.name \in DOMAIN aliases
    /\ resolved.name \in DOMAIN step_outputs
    /\ aliases[resolved.name][1] # resolved.name
    /\ resolved.got.ok
    /\ resolved.got = ThroughAlias(resolved.name)
    /\ resolved.got.val # step_outputs[resolved.name]

----------------------------------------------------------------------------
(* Declaring steps between the runs of one instance *)

\* TaskFlow.step called on an instance that was run before: the next name
\* of DeclOrder is declared with its own agent, input {"input": "{{input}}"}
\* and the given depends_on.  step() only rejects a step_name that exists;
\* it does not look at the executor's cached order.
LateStep(deps) ==
    /\ ~caller.loop
    /\ runs >= 1
    /\ pc \in {"idle", "returned", "raised"}
    /\ Len(steps) < Len(DeclOrder)
    /\ LET name == DeclOrder[Len(steps) + 1]
       IN /\ ~StepExists(steps, name)
          /\ steps' = Append(steps, MkStep(name, name, deps, "None", NoneInt, 0))
    /\ pc' = "idle"
    /\ UNCHANGED <<agents, parallel_groups, retry_on_fail, initial_input,
                   step_outputs, order_cache, runs, order, idx, executed_steps,
                   st, grp, trace, error, result, aliases, resolved, caller,
                   hooks, declared, on_step, memory,
                   executions>>

\* the depends_on lists late steps are declared with
LateDeps == {{}, {DeclOrder[1]}}

NextLate ==
    \/ Next
    \/ \E deps \in LateDeps : LateStep(deps)

SpecLate == Init /\ [][NextLate]_vars

C33_WalksStoredOrder ==
    pc \in {"walk", "group"} => (order_cache.set /\ order = order_cache.val)

----------------------------------------------------------------------------
(* C34 *)

\* the step and the path segments the declared alias walks
AliasStep == aliases[AliasName][1]
AliasSegments == SplitReference(aliases[AliasName][2])

\* the alias was resolved, the step it names has a list recorded and the
\* path has a segment for it
AtSequence ==
    /\ "alias" \in DOMAIN resolved
    /\ AliasStep \in DOMAIN step_outputs
    /\ step_outputs[AliasStep].kind = "list"
    /\ AliasSegments # <<>>

\* the first segment, read as an integer
AliasIndex == ParseInt(Head(AliasSegments))

\* the list index rule of the claim, applied to the first segment: element
\* i for an integer i with 0 <= i < n, a resolution error for anything else
IndexRule ==
    LET items == step_outputs[AliasStep].val
    IN IF AliasIndex.ok /\ 0 <= AliasIndex.val /\ AliasIndex.val < Len(items)
       THEN resolved["alias"] =
                ResolveNestedReferences(items[AliasIndex.val + 1],
                                        Tail(AliasSegments), AliasStep)
       ELSE /\ ~resolved["alias"].ok
            /\ resolved["alias"].err = "ChainlessError"
            /\ resolved["alias"].what \in {"index", "range"}

\* C34: when traversal reaches a sequence of length n, a path segment
\* resolves only if it parses as an integer i with 0 <= i < n, and then
\* yields element i; every other segment (non-integer, negative, or i >= n)
\* raises a resolution error.
C34_ListIndex == AtSequence => IndexRule

\* the same for the segments that are no negative integer
C34_ListIndexNonNegative ==
    (AtSequence /\ ~(AliasIndex.ok /\ AliasIndex.val < 0)) => IndexRule

----------------------------------------------------------------------------
(* Parallel groups as the lists parallel() was given *)

\* the most groups declared on one flow, and the longest list given to
\* parallel()
MaxGroups == 2
MaxGroupLen == 2

\* parallel(step_names) appends the list as it is: a name may be listed
\* twice, and in several groups
GroupDecls(n) ==
    LET lists == UNION {[1..k -> Prefix(n)] : k \in 1..MaxGroupLen}
    IN UNION {[1..k -> lists] : k \in 0..MaxGroups}

\* flows of two or three steps without depends_on, retry budget or
\* timeout; the first step has a condition
InitGroups ==
    /\ \E n \in 2..3 : \E G \in GroupDecls(n) :
          /\ steps = [i \in 1..n |->
                        MkStep(DeclOrder[i], DeclOrder[i], {},
                               IF i = 1 THEN "fn" ELSE "None", NoneInt, 0)]
          /\ parallel_groups = G
          /\ declared = G
    /\ retry_on_fail = 0
    /\ hooks = "return"
    /\ on_step = NoHooks
    /\ memory = NoMemory
    /\ executions = <<>>
    /\ agents = [a \in StepNameSet \cup {Echo} |-> a]
    /\ initial_input = <<>>
    /\ step_outputs = [s \in StepNameSet |-> Absent]
    /\ order_cache = [set |-> FALSE, val |-> <<>>]
    /\ runs = 0
    /\ pc = "idle"
    /\ order = <<>>
    /\ idx = 0
    /\ executed_steps = {}
    /\ st = [s \in StepNameSet |-> IdleFrame]
    /\ grp = IdleGroup
    /\ trace = <<>>
    /\ error = NoError
    /\ result = NoneVal
    /\ aliases = << >>
    /\ resolved = Unresolved
    /\ caller = OutsideLoop

\* lines 343-345: next(group for group in self._parallel_groups if
\* step_name in group), None when there is none (written <<>>)
FirstGroupWith(s) ==
    LET hits == {i \in DOMAIN parallel_groups : s \in Range(parallel_groups[i])}
    IN IF hits = {} THEN <<>>
       ELSE parallel_groups[CHOOSE i \in hits : \A j \in hits : i <= j]

\* the outcomes of run_step_async for a step without retry budget whose
\* input resolves: the runnable returns a value, or it raises and line 203
\* raises RuntimeError
Executions == {"ok", "raise"}

\* the events of one run_step_async call: the runnable is invoked once
ExecutionEvents(s, outcome, v) ==
    Via(<<Invoke(s, GetStepByName(steps, s).agent_name, initial_input),
          Return(s, outcome)>>, v)

\* the entry a successful run_step_async call writes
OutputEntry(s) ==
    Entry("output", OutputOf(GetStepByName(steps, s).agent_name, initial_input))

\* line 203
PermanentFailure(s) ==
    [kind |-> "RuntimeError", names |-> {s}, msg |-> <<s, "failed permanently">>]

\* One iteration of the for loop of _run_async (or its return), a step the
\* walk runs itself being executed to its end.
ListWalkNext ==
    /\ pc = "walk"
    /\ IF idx > Len(order)
       THEN /\ pc' = "returned"
            /\ result' = FinalOutput(step_outputs)
            /\ UNCHANGED <<idx, step_outputs, trace, grp, error, executed_steps>>
       ELSE
         LET s == order[idx]
             step == GetStepByName(steps, s)
         IN
         IF s \in executed_steps
         THEN /\ idx' = idx + 1
              /\ UNCHANGED <<pc, step_outputs, trace, grp, error, result,
                             executed_steps>>
         ELSE IF step.agent_name \notin DOMAIN agents
         THEN /\ pc' = "raised"
              /\ error' = [kind |-> "AgentNotRegistered", names |-> {s, step.agent_name},
                           msg |-> <<>>]
              /\ UNCHANGED <<idx, step_outputs, trace, grp, result, executed_steps>>
         ELSE \E c \in CondResults(step) :
           IF c = "Raise"
           THEN /\ pc' = "raised"
                /\ error' = ConditionError
                /\ trace' = Append(trace, [ev |-> "condition", step |-> s, tag |-> c,
                                           arg |-> <<>>, via |-> "walk"])
                /\ UNCHANGED <<idx, step_outputs, grp, result, executed_steps>>
           ELSE IF c \in {"False", "NonBool"}
           THEN /\ step_outputs' = [step_outputs EXCEPT ![s] = Entry("skipped", NoneVal)]
                /\ trace' = Append(trace, Settle(s, "skipped", NoneVal))
                /\ idx' = idx + 1
                /\ UNCHANGED <<pc, grp, error, result, executed_steps>>
           ELSE IF FirstGroupWith(s) # <<>>
           THEN \* lines 374-398: a task is started for every listed name
                \* that is not in executed_steps when the list is read
                /\ pc' = "group"
                /\ grp' = [members |-> FirstGroupWith(s),
                           tostart |-> {i \in DOMAIN FirstGroupWith(s) :
                                          FirstGroupWith(s)[i] \notin executed_steps},
                           results |-> {}, errors |-> <<>>]
                /\ UNCHANGED <<idx, step_outputs, trace, error, result,
                               executed_steps>>
           ELSE \E outcome \in Executions :
                /\ trace' = trace \o ExecutionEvents(s, outcome, "walk")
                /\ IF outcome = "ok"
                   THEN /\ step_outputs' = [step_outputs EXCEPT ![s] = OutputEntry(s)]
                        /\ executed_steps' = executed_steps \cup {s}
                        /\ idx' = idx + 1
                        /\ UNCHANGED <<pc, error>>
                   ELSE /\ pc' = "raised"
                        /\ error' = PermanentFailure(s)
                        /\ UNCHANGED <<idx, step_outputs, executed_steps>>
                /\ UNCHANGED <<grp, result>>
    /\ UNCHANGED <<flowVars, parallel_groups, initial_input, order_cache, runs,
                   order, st>>

\* the i-th task of the group runs run_step_async to its end (lines
\* 380-396); the scheduler picks the task
ListMemberRun(i, outcome) ==
    /\ pc = "group"
    /\ i \in grp.tostart
    /\ LET s == grp.members[i]
       IN /\ trace' = trace \o ExecutionEvents(s, outcome, "group")
          /\ IF outcome = "ok"
             THEN /\ step_outputs' = [step_outputs EXCEPT ![s] = OutputEntry(s)]
                  /\ grp' = [grp EXCEPT !.tostart = @ \ {i},
                                        !.results = @ \cup {s}]
             ELSE /\ grp' = [grp EXCEPT !.tostart = @ \ {i},
                                        !.errors = Append(@, [n |-> s,
                                                              e |-> PermanentFailure(s)])]
                  /\ UNCHANGED step_outputs
    /\ UNCHANGED <<flowVars, parallel_groups, initial_input, order_cache, runs, pc,
                   order, idx, executed_steps, st, error, result>>

\* the task group is left, lines 400-405, and lines 350-351 of _run_async
ListGroupJoin ==
    /\ pc = "group"
    /\ grp.tostart = {}
    /\ IF grp.errors # <<>>
       THEN /\ pc' = "raised"
            /\ error' = [kind |-> "ParallelGroupFailed",
                         names |-> ErrorMembers(grp),
                         msg |-> ErrSummary(grp.errors)]
            /\ UNCHANGED <<idx, executed_steps, parallel_groups>>
       ELSE /\ pc' = "walk"
            /\ executed_steps' = executed_steps \cup grp.results
            /\ parallel_groups' = RemoveFirst(parallel_groups, grp.members)
            /\ idx' = idx + 1
            /\ UNCHANGED error
    /\ UNCHANGED <<flowVars, initial_input, step_outputs, order_cache, runs, order,
                   st, grp, trace, result>>

NextGroups ==
    \/ RunBegin
    \/ ListWalkNext
    \/ \E i \in 1..MaxGroupLen, outcome \in Executions : ListMemberRun(i, outcome)
    \/ ListGroupJoin

SpecGroups == InitGroups /\ [][NextGroups]_vars

\* C35: within one run every step is executed at most once: a step run as a
\* member of a parallel group is not run again by the walk, a step listed
\* in several groups is run by only one of them, and (the steps having no
\* retry budget) no runnable is invoked twice.
C35_ExecutedOnce ==
    \A s \in DeclaredNames(steps) : Cardinality(EventsOf("invoke", s)) <= 1

\* no declared group lists a step twice
NoRepeatedMember ==
    \A g \in DOMAIN declared : \A i, j \in DOMAIN declared[g] :
        i # j => declared[g][i] # declared[g][j]

\* the same for the flows whose groups list no step twice, a step listed
\* in two groups included
C35_ExecutedOnceWithoutRepeats == NoRepeatedMember => C35_ExecutedOnce

\* a step listed in two groups was run by the first, and the second group
\* ran without it
C35_SharedMemberWitness ==
    /\ NoRepeatedMember
    /\ Len(declared) = 2
    /\ Range(declared[1]) \cap Range(declared[2]) # {}
    /\ Range(declared[1]) # Range(declared[2])
    /\ parallel_groups = <<>>
    /\ pc = "returned"

----------------------------------------------------------------------------
(* C36 *)

\* C36: when run returns normally, step_outputs (and so the FlowResult
\* built from it) holds an entry for every step declared on the flow at the
\* time of the call, steps declared after an earlier run of the instance
\* included.
C36_EntryForEveryStep ==
    pc = "returned" => \A s \in DeclaredNames(steps) : step_outputs[s] # Absent

\* the same for the steps of the order the run walked
C36_EntryForEveryWalkedStep ==
    pc = "returned" => \A s \in Range(order) : step_outputs[s] # Absent

----------------------------------------------------------------------------
(* Overlapping run_async calls on one instance *)

\* the most run_async calls in flight on one instance
MaxOverlap == 2

\* the calls: the k-th is made with the input InputOfRun(k)
Calls == 1..MaxOverlap

\* a flow of one to three steps, each with input_map {"input": "{{input}}"},
\* no condition, no group, no retry budget, run by tasks of one event
\* loop.  The locals of _run_async and run_step_async exist once per call:
\* pc, order, idx, executed_steps, st, trace, error and result map each
\* call to its own.
InitOverlap ==
    /\ \E n \in 1..3 :
          steps = [i \in 1..n |->
                     MkStep(DeclOrder[i], DeclOrder[i], {}, "None", NoneInt, 0)]
    /\ parallel_groups = <<>>
    /\ declared = <<>>
    /\ retry_on_fail = 0
    /\ hooks = "return"
    /\ on_step = NoHooks
    /\ memory = NoMemory
    /\ executions = <<>>
    /\ agents = [a \in StepNameSet \cup {Echo} |-> a]
    /\ initial_input = <<>>
    /\ step_outputs = [s \in StepNameSet |-> Absent]
    /\ order_cache = [set |-> FALSE, val |-> <<>>]
    /\ runs = 0
    /\ pc = [k \in Calls |-> "idle"]
    /\ order = [k \in Calls |-> <<>>]
    /\ idx = [k \in Calls |-> 0]
    /\ executed_steps = [k \in Calls |-> {}]
    /\ st = [k \in Calls |-> IdleFrame]
    /\ grp = IdleGroup
    /\ trace = [k \in Calls |-> <<>>]
    /\ error = [k \in Calls |-> NoError]
    /\ result = [k \in Calls |-> [flow |-> << >>, output |-> NoneVal]]
    /\ aliases = << >>
    /\ resolved = Unresolved
    /\ caller = OutsideLoop

\* _run_async of call k from position i of its order up to its next await:
\* the input of the next step is resolved (run_step_async line 82) and its
\* runnable is invoked, or the loop is over and run_async builds the
\* FlowOutput from ctx.step_outputs (lines 264-274).  outs and input are
\* ctx.step_outputs and ctx.initial_input at that moment: "{{input}}" is
\* resolved by reading ctx.initial_input (_task_context.py line 120).
ContinueWalk(ord, i, outs, input) ==
    IF i > Len(ord)
    THEN [pc |-> "returned", frame |-> IdleFrame, events |-> << >>,
          result |-> [flow |-> outs, output |-> FinalOutput(outs)]]
    ELSE [pc |-> "step",
          frame |-> [IdleFrame EXCEPT !.phase = "invoking", !.attempts = 1,
                                      !.input = input],
          events |-> <<Invoke(ord[i], GetStepByName(steps, ord[i]).agent_name,
                              input)>>,
          result |-> [flow |-> << >>, output |-> NoneVal]]

\* run_async(user_input) is called (by a task of the loop, e.g. a request
\* served by FlowEndpoint) and runs to its first await
OverlapRunAsync(k) ==
    /\ pc[k] = "idle"
    /\ \A j \in 1..(k - 1) : pc[j] # "idle"
    /\ runs' = runs + 1
    /\ initial_input' = InputOfRun(k)
    /\ \E o \in CachedOrderOutcomes(order_cache, steps) :
          LET w == ContinueWalk(o.order, 1, step_outputs, InputOfRun(k))
          IN /\ order' = [order EXCEPT ![k] = o.order]
             /\ order_cache' = IF o.ok THEN [set |-> TRUE, val |-> o.order]
                               ELSE order_cache
             /\ idx' = [idx EXCEPT ![k] = 1]
             /\ pc' = [pc EXCEPT ![k] = IF o.ok THEN w.pc ELSE "raised"]
             /\ error' = [error EXCEPT ![k] = o.error]
             /\ st' = [st EXCEPT ![k] = w.frame]
             /\ trace' = [trace EXCEPT ![k] = w.events]
             /\ result' = [result EXCEPT ![k] = w.result]
    /\ executed_steps' = [executed_steps EXCEPT ![k] = {}]
    /\ UNCHANGED <<flowVars, parallel_groups, step_outputs, grp>>

\* the runnable awaited by call k returns or raises, and the call runs on
\* to its next await
OverlapAgentReturn(k, outcome) ==
    /\ pc[k] = "step"
    /\ LET s == order[k][idx[k]]
           outs == [step_outputs EXCEPT ![s] =
                       Entry("output", OutputOf(GetStepByName(steps, s).agent_name,
                                                st[k].input))]
           w == ContinueWalk(order[k], idx[k] + 1, outs, initial_input)
       IN IF outcome = "ok"
          THEN /\ step_outputs' = outs
               /\ executed_steps' = [executed_steps EXCEPT ![k] = @ \cup {s}]
               /\ idx' = [idx EXCEPT ![k] = @ + 1]
               /\ pc' = [pc EXCEPT ![k] = w.pc]
               /\ st' = [st EXCEPT ![k] = w.frame]
               /\ trace' = [trace EXCEPT ![k] = @ \o <<Return(s, outcome)>> \o w.events]
               /\ result' = [result EXCEPT ![k] = w.result]
               /\ UNCHANGED error
          ELSE /\ pc' = [pc EXCEPT ![k] = "raised"]
               /\ error' = [error EXCEPT ![k] = PermanentFailure(s)]
               /\ st' = [st EXCEPT ![k].phase = "failed"]
               /\ trace' = [trace EXCEPT ![k] = @ \o <<Return(s, outcome)>>]
               /\ UNCHANGED <<step_outputs, executed_steps, idx, result>>
    /\ UNCHANGED <<flowVars, parallel_groups, initial_input, order_cache, runs,
                   order, grp>>

NextOverlap ==
    \/ \E k \in Calls : OverlapRunAsync(k)
    \/ \E k \in Calls, outcome \in Executions : OverlapAgentReturn(k, outcome)

SpecOverlap == InitOverlap /\ [][NextOverlap]_vars

\* the inputs the runnables of call k were invoked with
InvokedWith(k) ==
    {trace[k][i].arg : i \in {j \in DOMAIN trace[k] : trace[k][j].ev = "invoke"}}

\* C37: when run_async calls on one instance overlap, every {{input}}
\* resolved on behalf of a call yields the input that call was made with,
\* and the FlowResult of a call holds only outputs computed from its own
\* input.
C37_RunsKeepTheirInput ==
    \A k \in Calls :
        /\ InvokedWith(k) \subseteq {InputOfRun(k)}
        /\ pc[k] = "returned" =>
              \A s \in DeclaredNames(steps) :
                  result[k].flow[s] =
                      Entry("output", OutputOf(GetStepByName(steps, s).agent_name,
                                               InputOfRun(k)))

\* the first step of every call is invoked with the call's own input:
\* nothing is awaited between lines 262 and 82
C37_FirstStepKeepsInput ==
    \A k \in Calls :
        trace[k] # <<>> => trace[k][1].arg = InputOfRun(k)

----------------------------------------------------------------------------
(* Agent.run_async and the tool execution tracker *)

\* the most agent runs in flight, and the most tools one run executes
MaxAgentRuns == 2
MaxToolCalls == 2

AgentRuns == 1..MaxAgentRuns

\* the names of the tools the agents were given
ToolNames == {"search", "calc"}

\* ToolExecutionTracker.start: the ToolUsedSchema entry appended.  by and
\* nth are observation only (the run that started the execution and its
\* number within that run); the entry itself has no such fields.
RunningEntry(tool_name, by, nth) ==
    [tool_name |-> tool_name, status |-> "running", by |-> by, nth |-> nth]

\* ToolExecutionTracker.finish: the last entry of that tool name that is
\* RUNNING becomes SUCCESS or FAILED; no such entry, no change
Finish(execs, tool_name, status) ==
    LET open == {i \in DOMAIN execs : execs[i].tool_name = tool_name
                                       /\ execs[i].status = "running"}
    IN IF open = {} THEN execs
       ELSE [execs EXCEPT ![CHOOSE i \in open : \A j \in open : j <= i].status = status]

\* agent runs (Agent.run_async calls, of one agent or of several: the
\* tracker is a class attribute) that have not started; per run, pc is
\* its position, trace the tools it executed, st the tool it is executing
\* and result the tools_used of its AgentResponse
InitTools ==
    /\ executions = <<>>
    /\ pc = [r \in AgentRuns |-> "idle"]
    /\ trace = [r \in AgentRuns |-> <<>>]
    /\ st = [r \in AgentRuns |-> "none"]
    /\ result = [r \in AgentRuns |-> <<>>]
    /\ memory = NoMemory
    /\ steps = <<>>
    /\ agents = << >>
    /\ aliases = << >>
    /\ parallel_groups = <<>>
    /\ declared = <<>>
    /\ retry_on_fail = 0
    /\ hooks = "return"
    /\ on_step = NoHooks
    /\ initial_input = <<>>
    /\ step_outputs = << >>
    /\ order_cache = [set |-> FALSE, val |-> <<>>]
    /\ runs = 0
    /\ order = <<>>
    /\ idx = 0
    /\ executed_steps = {}
    /\ grp = IdleGroup
    /\ error = NoError
    /\ resolved = Unresolved
    /\ caller = OutsideLoop

toolsUnchanged == <<steps, agents, parallel_groups, retry_on_fail, initial_input,
                    step_outputs, order_cache, runs, order, idx, executed_steps,
                    grp, error, aliases, resolved, caller, hooks, declared,
                    on_step, memory>>

\* ToolExecutionTracker.reset: cls._executions = []
TrackerReset(execs) == <<>>

\* Agent.run_async line 524, up to the await of the model call
AgentRunBegin(r) ==
    /\ pc[r] = "idle"
    /\ executions' = TrackerReset(executions)
    /\ pc' = [pc EXCEPT ![r] = "running"]
    /\ UNCHANGED <<trace, st, result, toolsUnchanged>>

\* the model asks for a tool: Tool.execute line 199 (the proxy function is
\* synchronous and runs in a worker thread)
ToolStart(r, tool_name) ==
    /\ pc[r] = "running"
    /\ Len(trace[r]) < MaxToolCalls
    /\ executions' = Append(executions,
                            RunningEntry(tool_name, r, Len(trace[r]) + 1))
    /\ trace' = [trace EXCEPT ![r] = Append(@, tool_name)]
    /\ st' = [st EXCEPT ![r] = tool_name]
    /\ pc' = [pc EXCEPT ![r] = "in_tool"]
    /\ UNCHANGED <<result, toolsUnchanged>>

\* the tool function returns or raises: Tool.execute lines 210 and 217
ToolFinish(r, status) ==
    /\ pc[r] = "in_tool"
    /\ executions' = Finish(executions, st[r], status)
    /\ st' = [st EXCEPT ![r] = "none"]
    /\ pc' = [pc EXCEPT ![r] = "running"]
    /\ UNCHANGED <<trace, result, toolsUnchanged>>

\* the model call returns: lines 600-618, used = ToolExecutionTracker.get()
AgentRunEnd(r) ==
    /\ pc[r] = "running"
    /\ result' = [result EXCEPT ![r] = executions]
    /\ pc' = [pc EXCEPT ![r] = "returned"]
    /\ UNCHANGED <<executions, trace, st, toolsUnchanged>>

NextTools ==
    \/ \E r \in AgentRuns : AgentRunBegin(r)
    \/ \E r \in AgentRuns, tool_name \in ToolNames : ToolStart(r, tool_name)
    \/ \E r \in AgentRuns, status \in {"success", "failed"} : ToolFinish(r, status)
    \/ \E r \in AgentRuns : AgentRunEnd(r)

SpecTools == InitTools /\ [][NextTools]_vars

\* the records are those of the executions run r started, in order, each
\* finished
OwnRecords(r, used) ==
    /\ Len(used) = Len(trace[r])
    /\ \A i \in DOMAIN used :
          /\ used[i].by = r
          /\ used[i].nth = i
          /\ used[i].tool_name = trace[r][i]
          /\ used[i].status # "running"

\* C38: the tool-usage records returned with one agent run are exactly the
\* tool executions started during that run, also when another agent run
\* executes concurrently: none is lost, none belongs to another run.
C38_ToolRecordsPerRun ==
    \A r \in AgentRuns : pc[r] = "returned" => OwnRecords(r, result[r])

\* the same for a run during which no other run was in flight
C38_ToolRecordsOfLoneRun ==
    \A r \in AgentRuns :
        (pc[r] = "returned" /\ \A o \in AgentRuns \ {r} : pc[o] = "idle")
            => OwnRecords(r, result[r])

----------------------------------------------------------------------------
(* C39 *)

\* the calls of the step-level and of the flow-level on_start hook for s
StartHookCalls(s) == HooksOf("step.on_start", s) \cup HooksOf("flow.on_start", s)

\* the condition of s was false (or no bool) in this run
SkippedInRun(s) == \E i \in EventsOf("settle", s) : trace[i].tag = "skipped"

\* each on_start hook of s fired at most once, and once the runnable was
\* invoked each had fired exactly once, before the first attempt
StartedOnce(s) ==
    /\ Cardinality(HooksOf("step.on_start", s)) <= 1
    /\ Cardinality(HooksOf("flow.on_start", s)) <= 1
    /\ EventsOf("invoke", s) # {} =>
          /\ Cardinality(HooksOf("step.on_start", s)) = 1
          /\ Cardinality(HooksOf("flow.on_start", s)) = 1
          /\ \A h \in StartHookCalls(s), i \in EventsOf("invoke", s) : h < i

\* C39: the on_start hooks of a step fire exactly once per execution of the
\* step, before the first attempt, however many retries follow; a step
\* skipped by its condition, or whose input resolution fails, fires no
\* on_start hook.
C39_StartHooksOnce ==
    \A s \in DeclaredNames(steps) :
        /\ StartedOnce(s)
        /\ SkippedInRun(s) => StartHookCalls(s) = {}
        /\ Unresolvable(s) => StartHookCalls(s) = {}

\* the same, a skipped step being required to fire no on_start hook only
\* when it is in no parallel group
C39_StartHooksOnceOutsideGroups ==
    \A s \in DeclaredNames(steps) :
        /\ StartedOnce(s)
        /\ (SkippedInRun(s) /\ \A g \in DOMAIN declared : s \notin declared[g])
              => StartHookCalls(s) = {}
        /\ Unresolvable(s) => StartHookCalls(s) = {}

----------------------------------------------------------------------------
(* C40 *)

\* a run() call is under way
Running == pc \in {"walk", "step", "group"}

\* the run() call has returned its FlowOutput or raised
Terminated == pc \in {"returned", "raised"}

====
